---- MODULE Spec2Model ----
(***************************************************************************)
(* Model of the disk-usage scanner of reclaimed: DiskScanner (blocking     *)
(* scan(), streaming scan_async(), the two directory walkers, ancestor     *)
(* chain aggregation, top-K insertion) over a small fallible file system.  *)
(***************************************************************************)
EXTENDS Integers, Sequences, FiniteSets, TLC

(***************************************************************************)
(* Bounds of the model.                                                    *)
(***************************************************************************)
\* largest file size drawn for a file of the tree
MaxSize == 2
\* ScanOptions.max_files is drawn from 0..MaxFiles
MaxFiles == 2
\* ScanOptions.max_dirs is drawn from {1, MaxDirs}
MaxDirs == 6
\* number of scan()/scan_async() calls made on the one DiskScanner
MaxScans == 2
\* chunk_size of scan_async (250 in the source), scaled to the small tree
ChunkSize == 2
\* base cache_update_frequency of _update_dir_sizes (100 in the source), scaled
CacheUpdateFrequency == 2
\* number of _insert_sorted calls of the top-K harness, and its largest K
MaxInserts == 4
MaxK == 3

(***************************************************************************)
(* Paths.  A path is the tuple of its components; <<>> is "/".             *)
(***************************************************************************)
Root == <<"u", "h", "r">>
D1 == Root \o <<"d1">>
F1 == Root \o <<"f1">>
E == D1 \o <<"e">>
G1 == D1 \o <<"g1">>
K1 == E \o <<"k">>
Missing == Root \o <<"nonexistent">>

DirEntries == {D1, E}
FileEntries == {F1, G1, K1}
Entries == DirEntries \cup FileEntries

\* Path.parents: the ancestors, nearest first, ending with "/"
Parents(p) == [i \in 1..Len(p) |-> SubSeq(p, 1, Len(p) - i)]
\* a in p.parents
InParents(a, p) == Len(a) < Len(p) /\ SubSeq(p, 1, Len(a)) = a
\* DirEntry.name / Path.name
Name(p) == p[Len(p)]

(***************************************************************************)
(* Exceptions: the classes the scanner's except clauses name.              *)
(***************************************************************************)
\* the class and its base classes (builtin hierarchy; errors.py for the custom ones)
Bases(exc) ==
  IF exc \in {"PermissionError", "FileNotFoundError"}
    THEN {exc, "OSError", "Exception", "BaseException"}
  ELSE IF exc \in {"OSError", "IndexError", "AttributeError"}
    THEN {exc, "Exception", "BaseException"}
  ELSE IF exc = "KeyboardInterrupt" THEN {exc, "BaseException"}
  ELSE {exc}

IsInstance(exc, classes) == Bases(exc) \cap classes # {}


(***************************************************************************)
(* State.                                                                  *)
(***************************************************************************)
VARIABLES
  fs,                \* the tree: entry path -> what the OS answers for it
  options,           \* DiskScanner.options (ScanOptions)
  _access_issues,    \* DiskScanner._access_issues: path -> error message
  _dir_sizes,        \* DiskScanner._dir_sizes: dict in insertion order
  _total_size,       \* DiskScanner._total_size
  _file_count,       \* DiskScanner._file_count
  _update_counter,   \* DiskScanner._update_counter
  _cache,            \* DirectorySizeCache._cache of DiskScanner._cache
  now,               \* time.time()
  mode,              \* which scan is running: "idle", "scan", "scan_async"
  root_path,         \* the argument of the last call
  pos,               \* how many walker items the running scan has consumed
  largest_files,     \* scan_async: largest_files; scan: files
  largest_dirs,      \* scan_async: largest_dirs
  paths_chunk,       \* scan_async: len(paths_chunk)
  last_dir_calc_time,\* scan_async: last_dir_calc_time
  emitted,           \* the ScanProgress values the running scan_async yielded
  outcome,           \* how the last call ended
  completed,         \* the results of the calls that returned, oldest first
  scans,             \* number of calls made
  signal,            \* where a KeyboardInterrupt was raised, "none" if none was
  items,             \* top-K harness: the list handed to _insert_sorted
  max_items,         \* top-K harness: K
  inserted,          \* top-K harness: the items passed so far, in call order
  ret,               \* cache harness: the last call on the cache and what it returned
  last_set,          \* cache harness: per path, its last set() and what followed it
  lock,              \* DirectorySizeCache._lock: the thread that holds it, 0 if none
  threads,           \* the threads calling the cache: where each is in its call
  removed,           \* the paths deleted from the disk since the model started
  app_largest_files, \* ReclaimedApp.largest_files
  app_largest_dirs,  \* ReclaimedApp.largest_dirs
  files_buffer,      \* _scan_directory_worker: files_buffer, later result["files"]
  dirs_buffer,       \* _scan_directory_worker: dirs_buffer, later result["dirs"]
  files_alias,       \* largest_files and files_buffer are the same list object
  dirs_alias,        \* largest_dirs and dirs_buffer are the same list object
  seen,              \* _scan_directory_worker: ScanProgress values taken from the scan
  worker,            \* the "Directory Scanner" worker: "none", "loop", "returned"
  app_scans,         \* calls of ReclaimedApp.scan_directory
  hidden_dirs,       \* ReclaimedApp.hidden_dirs
  _hidden_cache,     \* ReclaimedApp._hidden_cache: str(path) -> bool
  files_table,       \* the rows of DataTable #files-table
  dirs_table,        \* the rows of DataTable #dirs-table
  _last_table_items, \* ReclaimedApp._last_table_items
  current_focus,     \* ReclaimedApp.current_focus
  dialog,            \* the ConfirmationDialog on screen, if any
  user_steps,        \* keys the user has pressed
  last_action,       \* the action of ReclaimedApp that ran last
  delete_errors,     \* the paths for which "Error deleting ..." was notified
  saved,             \* export harness: the last save_results call and what it wrote
  shown,             \* filter harness: an app path, a directories list and its rows
  stale,             \* the scan_async generator of a worker that a rescan left running
  ring               \* metrics harness: a MetricsBuffer and the calls made on it

scanner_vars == <<_access_issues, _dir_sizes, _total_size, _file_count,
                  _update_counter, _cache>>
run_vars == <<mode, root_path, pos, largest_files, largest_dirs, paths_chunk,
              last_dir_calc_time, emitted, outcome, completed, scans, signal>>
cache_harness_vars == <<ret, last_set, lock, threads>>
app_vars == <<removed, app_largest_files, app_largest_dirs, files_buffer, dirs_buffer,
              files_alias, dirs_alias, seen, worker, app_scans, hidden_dirs,
              _hidden_cache, files_table, dirs_table, _last_table_items,
              current_focus, dialog, user_steps, last_action, delete_errors>>
export_vars == <<saved, shown, stale, ring>>
harness_vars == <<items, max_items, inserted, cache_harness_vars, app_vars, export_vars>>

\* os.scandir(p): the entries of a directory, in the order the OS lists them
Scandir(p) ==
  SelectSeq(IF p = Root THEN <<D1, F1>>
            ELSE IF p = D1 THEN <<E, G1>>
            ELSE IF p = E THEN <<K1>>
            ELSE <<>>,
            LAMBDA c : c \notin removed)

vars == <<fs, options, now, scanner_vars, run_vars, harness_vars>>

(***************************************************************************)
(* The file system collaborator: every call may fail.                      *)
(***************************************************************************)
\* what the OS answers for one entry: DirEntry.is_symlink()/is_dir() raise
\* entry_err, DirEntry.stat() raises stat_err, os.scandir(entry) raises list_err
Node(isdir, symlink, size, entry_err, stat_err, list_err) ==
  [is_dir |-> isdir, is_symlink |-> symlink, size |-> size,
   entry_err |-> entry_err, stat_err |-> stat_err, list_err |-> list_err]

FileNodes ==
  {Node(FALSE, FALSE, s, "none", "none", "none") : s \in 0..MaxSize}
  \cup {Node(FALSE, FALSE, 0, "none", "PermissionError", "none")}

DirNodes ==
  {Node(TRUE, FALSE, 0, "none", "none", "none"),
   Node(TRUE, FALSE, 0, "none", "none", "PermissionError"),
   Node(TRUE, FALSE, 0, "none", "none", "FileNotFoundError"),
   Node(TRUE, FALSE, 0, "OSError", "none", "none"),
   Node(TRUE, TRUE, 0, "none", "none", "none")}

\* a directory the walkers can enter and list
PlainDir == Node(TRUE, FALSE, 0, "none", "none", "none")
\* what lies below a directory that cannot be entered: one fixed non-empty content
HiddenFile == Node(FALSE, FALSE, 1, "none", "none", "none")

Trees ==
  {t \in [Entries -> FileNodes \cup DirNodes] :
     /\ \A p \in DirEntries : t[p] \in DirNodes
     /\ \A p \in FileEntries : t[p] \in FileNodes
     /\ t[D1] # PlainDir => t[E] = PlainDir /\ t[G1] = HiddenFile
     /\ t[D1] # PlainDir \/ t[E] # PlainDir => t[K1] = HiddenFile}

\* a second directory next to Root: MaxFlat readable files of one byte each
\* and no subdirectory
FlatRoot == <<"u", "h", "flat">>
\* the number of files of the flat directory
MaxFlat == 6
FlatNames == <<"a", "b", "c", "i", "j", "k", "l", "m", "n">>

\* Path.is_dir()
IsDir(p) ==
  /\ p \notin removed
  /\ p = Root \/ InParents(p, Root) \/ (p \in DirEntries /\ fs[p].is_dir) \/ p = FlatRoot

\* ScanOptions; icloud_base is the empty set for None, else {base}
DefaultSkipDirs == {".Trash", "System Volume Information"}
OptionSet ==
  [max_files : 0..MaxFiles, max_dirs : {1, MaxDirs},
   skip_dirs : {DefaultSkipDirs, {"e"}}, icloud_base : {{}, {D1}}]

\* is_icloud of scan()/scan_async(): under icloud_base, or a "Mobile Documents" component
IsICloud(path) ==
  \/ \E b \in options.icloud_base : InParents(b, path)
  \/ \E i \in 1..Len(path) : path[i] = "Mobile Documents"

FileInfo(path, size, is_icloud) == [path |-> path, size |-> size, is_icloud |-> is_icloud]


(***************************************************************************)
(* The except clauses of the walkers and of the scan loops.                *)
(***************************************************************************)
\* except (OSError, AttributeError) around entry.stat()
StatHandler == {"OSError", "AttributeError"}
\* a bare "except:" around one entry: it also catches KeyboardInterrupt
EntryHandlerBare == {"BaseException"}

\* except (OSError, AttributeError) around one entry
EntryHandler == {"OSError", "AttributeError"}
\* except (AccessError, OSError) around one directory
DirHandler == {"AccessError", "OSError"}
\* except (PermissionError, OSError) in the loop body of scan()/scan_async();
\* PermissionError is the class imported from .errors, not the builtin
ConsumerHandler == {"errors.PermissionError", "OSError"}
\* except KeyboardInterrupt of scan()/scan_async()
ScanHandler == {"KeyboardInterrupt"}

\* the effect of the innermost except clause that catches exc raised at site:
\* a recorded access issue, ScanInterruptedError, or exc itself when none does
Catch(site, exc) ==
  IF site = "stat" /\ IsInstance(exc, StatHandler) THEN "record_entry"
  ELSE IF site \in {"stat", "entry"} /\ IsInstance(exc, EntryHandler) THEN "record_entry"
  ELSE IF site \in {"stat", "entry", "scandir"} /\ IsInstance(exc, DirHandler)
    THEN "record_dir"
  ELSE IF site = "consume" /\ IsInstance(exc, ConsumerHandler) THEN "record_file"
  ELSE IF IsInstance(exc, ScanHandler) THEN "ScanInterruptedError"
  ELSE exc

(***************************************************************************)
(* The walkers, as the sequence of items they hand to the scan loop:       *)
(* "file" and "dir" are yielded tuples, "issue" is a call of               *)
(* _handle_access_error made on the way, "raise" an exception that leaves  *)
(* the generator.                                                          *)
(***************************************************************************)
Item(ev, path, size, error) == [ev |-> ev, path |-> path, size |-> size, error |-> error]

\* exc raised at site while the walker is at entry c of directory d
Raised(site, c, d, exc) ==
  LET how == Catch(site, exc) IN
    IF how = "record_entry" THEN Item("issue", c, 0, exc)
    ELSE IF how = "record_dir" THEN Item("issue", d, 0, exc)
    ELSE Item("raise", c, 0, how)

\* the except clause of the directory caught it: the rest of the listing is not visited
EndsListing(it, d) == it.ev = "raise" \/ (it.ev = "issue" /\ it.path = d)

\* the characters of one path component
NameChars(n) ==
  CASE n = "d1" -> <<"d", "1">>
    [] n = "f1" -> <<"f", "1">>
    [] n = "g1" -> <<"g", "1">>
    [] OTHER -> <<n>>

\* "entry.name in skip_dirs" that also holds when the name contains an entry
InSkipDirsSubstring(name, skip_dirs) ==
  \E skip \in skip_dirs :
    \E i \in 1..Len(NameChars(name)) : \E j \in i..Len(NameChars(name)) :
      SubSeq(NameChars(name), i, j) = NameChars(skip)

\* entry.name in self.options.skip_dirs: the name is one of the entries
InSkipDirs(name, skip_dirs) ==
  \E skip \in skip_dirs : NameChars(name) = NameChars(skip)

RECURSIVE _walk_directory(_), WalkEntries(_, _)

\* one iteration of "for entry in os.scandir(path)" and the ones after it
WalkEntries(d, es) ==
  IF es = <<>> THEN <<>>
  ELSE
    LET c == Head(es)
        n == fs[c]
        here ==
          IF n.entry_err # "none" THEN <<Raised("entry", c, d, n.entry_err)>>
          ELSE IF n.is_symlink THEN <<>>
          ELSE IF n.is_dir THEN
            (IF ~InSkipDirs(Name(c), options.skip_dirs) THEN _walk_directory(c) ELSE <<>>)
              \o <<Item("dir", c, 0, "none")>>
          ELSE IF n.stat_err # "none" THEN <<Raised("stat", c, d, n.stat_err)>>
          ELSE <<Item("file", c, n.size, "none")>>
    IN IF here # <<>> /\ EndsListing(here[Len(here)], d) /\ ~n.is_dir
         THEN here
         ELSE here \o WalkEntries(d, Tail(es))

\* DiskScanner._walk_directory: recursive, depth first
_walk_directory(path) ==
  IF path # Root /\ fs[path].list_err # "none"
    THEN <<Raised("scandir", path, path, fs[path].list_err)>>
    ELSE WalkEntries(path, Scandir(path))

RECURSIVE AsyncEntries(_, _), AsyncSubdirs(_)

\* the subdirectories queued without the test against skip_dirs
AsyncSubdirsUnskipped(es) ==
  SelectSeq(es, LAMBDA c : fs[c].entry_err = "none" /\ ~fs[c].is_symlink /\ fs[c].is_dir)

\* the entries of current_dir the async walker appends to dirs_to_process
AsyncSubdirs(es) ==
  IF es = <<>> THEN <<>>
  ELSE LET c == Head(es)
           n == fs[c]
       IN (IF n.entry_err = "none" /\ ~n.is_symlink /\ n.is_dir
              /\ ~InSkipDirs(Name(c), options.skip_dirs)
             THEN <<c>> ELSE <<>>) \o AsyncSubdirs(Tail(es))

\* one iteration of "for entry in entries" of the async walker and the ones after it
AsyncEntries(d, es) ==
  IF es = <<>> THEN <<>>
  ELSE
    LET c == Head(es)
        n == fs[c]
        here ==
          IF n.entry_err # "none" THEN <<Raised("entry", c, d, n.entry_err)>>
          ELSE IF n.is_symlink \/ n.is_dir THEN <<>>
          ELSE IF n.stat_err # "none" THEN <<Raised("stat", c, d, n.stat_err)>>
          ELSE <<Item("file", c, n.size, "none")>>
    IN IF here # <<>> /\ EndsListing(here[1], d)
         THEN here
         ELSE here \o AsyncEntries(d, Tail(es))

RECURSIVE WalkQueue(_)

\* the while loop of _walk_directory_async over dirs_to_process
WalkQueue(dirs_to_process) ==
  IF dirs_to_process = <<>> THEN <<>>
  ELSE
    LET current_dir == Head(dirs_to_process)
        failed == current_dir # Root /\ fs[current_dir].list_err # "none"
        entries == IF failed THEN <<>> ELSE Scandir(current_dir)
        here ==
          IF failed
            THEN <<Raised("scandir", current_dir, current_dir, fs[current_dir].list_err)>>
            ELSE AsyncEntries(current_dir, entries)
    IN here \o <<Item("dir", current_dir, 0, "none")>>
         \o WalkQueue(Tail(dirs_to_process) \o AsyncSubdirs(entries))

\* DiskScanner._walk_directory_async: breadth first over a queue
_walk_directory_async(path) == WalkQueue(<<path>>)

\* what either walker yields for the flat directory: its files in the order
\* of the listing, then, for the async walker, the directory itself
FlatWalk(m) ==
  [i \in 1..MaxFlat |-> Item("file", FlatRoot \o <<FlatNames[i]>>, 1, "none")]
  \o (IF m = "scan" THEN <<>> ELSE <<Item("dir", FlatRoot, 0, "none")>>)

\* the items of the walker a running scan consumes
Walk(m) ==
  IF root_path = FlatRoot THEN FlatWalk(m)
  ELSE IF m = "scan" THEN _walk_directory(root_path) ELSE _walk_directory_async(root_path)


(***************************************************************************)
(* Python lists and insertion-ordered dicts.                               *)
(***************************************************************************)
\* list.insert(i, x), i counted from 0
ListInsert(l, i, x) == SubSeq(l, 1, i) \o <<x>> \o SubSeq(l, i + 1, Len(l))
\* l[:n]
\* l[:n] cut one place early
SliceShort(l, n) == SubSeq(l, 1, IF n - 1 < Len(l) THEN n - 1 ELSE Len(l))

\* l[:n]
Slice(l, n) == SubSeq(l, 1, IF n < Len(l) THEN n ELSE Len(l))
\* list.pop()
Pop(l) == SubSeq(l, 1, Len(l) - 1)

\* d.get(p, (0, False)) on _dir_sizes
DirGet(d, p) ==
  IF \E i \in DOMAIN d : d[i].path = p
    THEN LET i == CHOOSE j \in DOMAIN d : d[j].path = p IN d[i]
    ELSE FileInfo(p, 0, FALSE)

\* d[p] = (size, cloud): an existing key keeps its position, a new key goes last
DirSet(d, p, size, cloud) ==
  IF \E i \in DOMAIN d : d[i].path = p
    THEN [i \in DOMAIN d |-> IF d[i].path = p THEN FileInfo(p, size, cloud) ELSE d[i]]
    ELSE Append(d, FileInfo(p, size, cloud))

RECURSIVE StableSortDesc(_)
\* list.sort(key=lambda x: x.size, reverse=True): stable, largest first
StableSortDesc(l) ==
  IF l = <<>> THEN <<>>
  ELSE LET rest == StableSortDesc(Pop(l))
           x == l[Len(l)]
           n == Cardinality({i \in DOMAIN rest : rest[i].size >= x.size})
       IN ListInsert(rest, n, x)

(***************************************************************************)
(* DiskScanner._insert_sorted                                              *)
(***************************************************************************)
RECURSIVE BinarySearchTiesFirst(_, _, _, _)
\* BinarySearch with "<=" for "<": an equal item goes before the existing ones
BinarySearchTiesFirst(l, size, low, high) ==
  IF low > high THEN low
  ELSE LET mid == (low + high) \div 2 IN
    IF l[mid + 1].size <= size
      THEN BinarySearchTiesFirst(l, size, low, mid - 1)
      ELSE BinarySearchTiesFirst(l, size, mid + 1, high)

RECURSIVE BinarySearch(_, _, _, _)
\* the while loop of _insert_sorted: low after the search
BinarySearch(l, size, low, high) ==
  IF low > high THEN low
  ELSE LET mid == (low + high) \div 2 IN
    IF l[mid + 1].size < size
      THEN BinarySearch(l, size, low, mid - 1)
      ELSE BinarySearch(l, size, mid + 1, high)

\* items[-1] of the capacity test is evaluated on an empty list: IndexError
InsertSortedRaises(l, K) == Len(l) >= K /\ l = <<>>

\* the list after _insert_sorted(l, item, K), K an integer (every caller passes one)
_insert_sorted(l, item, K) ==
  IF Len(l) >= K /\ item.size <= l[Len(l)].size THEN l
  ELSE IF l = <<>> \/ item.size <= l[Len(l)].size THEN
    LET a == Append(l, item) IN IF Len(a) > K THEN Pop(a) ELSE a
  ELSE IF item.size > l[1].size THEN
    LET a == ListInsert(l, 0, item) IN IF Len(a) > K THEN Pop(a) ELSE a
  ELSE
    LET a == ListInsert(l, BinarySearch(l, item.size, 0, Len(l) - 1), item)
    IN IF Len(a) > K THEN Pop(a) ELSE a

(***************************************************************************)
(* DirectorySizeCache.set and DiskScanner._update_dir_sizes                *)
(***************************************************************************)
CacheEntry(size, is_icloud, timestamp, valid) ==
  [size |-> size, is_icloud |-> is_icloud, timestamp |-> timestamp, valid |-> valid]

RECURSIVE PathStr(_)
\* str(path) of an absolute path, as its sequence of characters
PathStr(p) ==
  IF p = <<>> THEN <<"/">>
  ELSE (IF Len(p) = 1 THEN <<>> ELSE PathStr(SubSeq(p, 1, Len(p) - 1)))
       \o <<"/">> \o NameChars(p[Len(p)])

\* the paths the cache is driven with on its own
CachePaths == {<<"a", "b">>, <<"b">>}
\* the paths whose string may be a key of the cache
KnownPaths ==
  CachePaths \cup {Root, D1, E} \cup {SubSeq(Root, 1, n) : n \in 0..Len(Root)}

\* Path(path_str)
StrPath(str) == CHOOSE p \in KnownPaths : PathStr(p) = str

\* the dict DirectorySizeCache._cache: a sequence of slots in insertion order
Slot(key, entry) == [key |-> key, entry |-> entry]
HasSlot(cache, key) == \E i \in DOMAIN cache : cache[i].key = key
SlotOf(cache, key) == CHOOSE i \in DOMAIN cache : cache[i].key = key

\* self._cache[key] = entry
PutSlot(cache, key, entry) ==
  IF HasSlot(cache, key)
    THEN [i \in DOMAIN cache |-> IF cache[i].key = key THEN Slot(key, entry) ELSE cache[i]]
    ELSE Append(cache, Slot(key, entry))

\* entry.valid = False for the entry stored under key
Invalidated(cache, key) ==
  [i \in DOMAIN cache |->
     IF cache[i].key = key
       THEN Slot(key, [cache[i].entry EXCEPT !.valid = FALSE])
       ELSE cache[i]]

\* DirectorySizeCache._ttl, in ticks of the clock (source default 600.0, scaled)
Ttl == 2

\* "time.time() - entry.timestamp > self._ttl"
Expired(entry, t) == t - entry.timestamp > Ttl

\* the timestamp of an entry that has expired when the model starts
StaleTime == 1000 - Ttl - 1

\* what get() hands back: None, or (size, is_icloud)
Absent == [present |-> FALSE, size |-> 0, is_icloud |-> FALSE]
Present(entry) == [present |-> TRUE, size |-> entry.size, is_icloud |-> entry.is_icloud]

\* DirectorySizeCache.get with ">=" for ">" in the expiry test
CacheGetEarlyExpiry(cache, path, t) ==
  LET key == PathStr(path) IN
  IF HasSlot(cache, key) /\ cache[SlotOf(cache, key)].entry.valid
    THEN LET entry == cache[SlotOf(cache, key)].entry IN
         IF t - entry.timestamp >= Ttl
           THEN [cache |-> Invalidated(cache, key), value |-> Absent]
           ELSE [cache |-> cache, value |-> Present(entry)]
    ELSE [cache |-> cache, value |-> Absent]

\* DirectorySizeCache.get at time t: the cache afterwards and the value returned
CacheGet(cache, path, t) ==
  LET key == PathStr(path) IN
  IF HasSlot(cache, key) /\ cache[SlotOf(cache, key)].entry.valid
    THEN LET entry == cache[SlotOf(cache, key)].entry IN
         IF Expired(entry, t)
           THEN [cache |-> Invalidated(cache, key), value |-> Absent]
           ELSE [cache |-> cache, value |-> Present(entry)]
    ELSE [cache |-> cache, value |-> Absent]

\* DirectorySizeCache.set: overwrite with a fresh timestamp
CacheSet(cache, path, size, is_icloud) ==
  PutSlot(cache, PathStr(path), CacheEntry(size, is_icloud, now, TRUE))

\* DirectorySizeCache.get_all_cached_dirs: the valid entries, in dict order
CacheGetAllCachedDirs(cache) ==
  LET valid == SelectSeq(cache, LAMBDA x : x.entry.valid)
  IN [i \in DOMAIN valid |-> StrPath(valid[i].key)]

\* DirectorySizeCache.invalidate deleting the entry instead of flagging it
CacheInvalidateDelete(cache, path) ==
  SelectSeq(cache, LAMBDA x : x.key # PathStr(path))

\* DirectorySizeCache.invalidate
CacheInvalidate(cache, path) ==
  IF HasSlot(cache, PathStr(path)) THEN Invalidated(cache, PathStr(path)) ELSE cache

RECURSIVE StrFind(_, _, _)
\* "pattern in path_str": the search tries every start position from i on
StrFind(pattern, str, i) ==
  IF i + Len(pattern) > Len(str) THEN FALSE
  ELSE IF SubSeq(str, i + 1, i + Len(pattern)) = pattern THEN TRUE
  ELSE StrFind(pattern, str, i + 1)

\* DirectorySizeCache.invalidate_by_pattern
CacheInvalidateByPattern(cache, pattern) ==
  [i \in DOMAIN cache |->
     IF StrFind(pattern, cache[i].key, 0)
       THEN Slot(cache[i].key, [cache[i].entry EXCEPT !.valid = FALSE])
       ELSE cache[i]]

\* DirectorySizeCache.clear
CacheClear(cache) == <<>>

\* DirectorySizeCache.cleanup with current_time read as t
CacheCleanup(cache, t) ==
  SelectSeq(cache, LAMBDA x : ~(~x.entry.valid \/ Expired(x.entry, t)))

RECURSIVE AddToParentsOverwrite(_, _, _, _)
\* the first loop of _update_dir_sizes storing is_icloud instead of
\* "current_cloud or is_icloud"
AddToParentsOverwrite(d, parents, file_size, is_icloud) ==
  IF parents = <<>> THEN d
  ELSE LET parent == Head(parents)
           cur == DirGet(d, parent)
       IN AddToParentsOverwrite(DirSet(d, parent, cur.size + file_size, is_icloud),
                                Tail(parents), file_size, is_icloud)

RECURSIVE AddToParentsFromCache(_, _, _, _)
\* the first loop of _update_dir_sizes starting a directory that has no
\* record yet from the size the cache holds for it
AddToParentsFromCache(d, parents, file_size, is_icloud) ==
  IF parents = <<>> THEN d
  ELSE LET parent == Head(parents)
           cached == CacheGet(_cache, parent, now).value
           cur == IF cached.present /\ ~(\E i \in DOMAIN d : d[i].path = parent)
                    THEN FileInfo(parent, cached.size, cached.is_icloud)
                    ELSE DirGet(d, parent)
       IN AddToParentsFromCache(
            DirSet(d, parent, cur.size + file_size, cur.is_icloud \/ is_icloud),
            Tail(parents), file_size, is_icloud)

RECURSIVE AddToParents(_, _, _, _)
\* the first loop of _update_dir_sizes over file_path.parents
AddToParents(d, parents, file_size, is_icloud) ==
  IF parents = <<>> THEN d
  ELSE LET parent == Head(parents)
           cur == DirGet(d, parent)
       IN AddToParents(DirSet(d, parent, cur.size + file_size, cur.is_icloud \/ is_icloud),
                       Tail(parents), file_size, is_icloud)

RECURSIVE CacheParents(_, _, _)
\* the second loop of _update_dir_sizes: cache.set for every parent
CacheParents(cache, d, parents) ==
  IF parents = <<>> THEN cache
  ELSE LET parent == Head(parents)
           cur == DirGet(d, parent)
       IN CacheParents(CacheSet(cache, parent, cur.size, cur.is_icloud), d, Tail(parents))

\* cache_update_frequency of _update_dir_sizes
cache_update_frequency ==
  IF _file_count > 10000 THEN 500
  ELSE IF _file_count > 5000 THEN 250
  ELSE CacheUpdateFrequency

\* _update_dir_sizes adding the size to the file's own directory only
_update_dir_sizes_nearest(file_path, file_size, is_icloud) ==
  LET d == AddToParents(_dir_sizes, <<Head(Parents(file_path))>>, file_size, is_icloud)
      c == _update_counter + 1
  IN [dir_sizes |-> d,
      update_counter |-> c,
      cache |-> IF c % cache_update_frequency = 0
                  THEN CacheParents(_cache, d, Parents(file_path))
                  ELSE _cache]

\* _update_dir_sizes: the new _dir_sizes, _update_counter and _cache
_update_dir_sizes(file_path, file_size, is_icloud) ==
  LET d == AddToParents(_dir_sizes, Parents(file_path), file_size, is_icloud)
      c == _update_counter + 1
  IN [dir_sizes |-> d,
      update_counter |-> c,
      cache |-> IF c % cache_update_frequency = 0
                  THEN CacheParents(_cache, d, Parents(file_path))
                  ELSE _cache]

\* _get_largest_dirs reading the accumulator as it was before the file
_get_largest_dirs_stale(d, root) ==
  LET keep == SelectSeq(_dir_sizes, LAMBDA x :
                IsDir(x.path) /\ (x.path = root \/ InParents(root, x.path)
                                    \/ InParents(x.path, root)))
  IN Slice(StableSortDesc(keep), options.max_dirs)

\* _get_largest_dirs over a given accumulator
_get_largest_dirs(d, root) ==
  LET keep == SelectSeq(d, LAMBDA x :
                IsDir(x.path) /\ (x.path = root \/ InParents(root, x.path)
                                    \/ InParents(x.path, root)))
  IN Slice(StableSortDesc(keep), options.max_dirs)

\* _handle_access_error: the message is the class name of the error
_handle_access_error(issues, path, error) == (path :> error) @@ issues


(***************************************************************************)
(* scan() and scan_async()                                                 *)
(***************************************************************************)
\* progress_estimate = min(0.95, n / (n + 1000)), as the fraction <<num, den>>
ProgressEstimate(n) == IF 20 * n >= 19 * (n + 1000) THEN <<19, 20>> ELSE <<n, n + 1000>>

ScanProgress(progress, files, dirs, scanned, total_size) ==
  [progress |-> progress, files |-> files, dirs |-> dirs,
   scanned |-> scanned, total_size |-> total_size]

\* what a call handed back: the ScanResult of scan(), or the terminal
\* ScanProgress of scan_async() (which carries no access_issues)
Returned(call, files, directories, total_size, files_scanned, access_issues) ==
  [call |-> call, files |-> files, directories |-> directories,
   total_size |-> total_size, files_scanned |-> files_scanned,
   access_issues |-> access_issues]

\* dir_calc_interval of scan_async, in seconds
dir_calc_interval(n) ==
  IF n > 50000 THEN 5 ELSE IF n > 10000 THEN 3 ELSE IF n > 5000 THEN 2 ELSE 1

\* seconds between last_dir_calc_time and the next reading of time.time()
TimeSteps == {0, 5}

\* a call on the cache: the method, its argument, the value or list returned,
\* the reading of the clock, and a bit that tells two equal calls apart
Called(op, path, pattern, value, dirs, flip) ==
  [op |-> op, path |-> path, pattern |-> pattern, value |-> value, dirs |-> dirs,
   at |-> now, flip |-> flip]

\* what is remembered of the last set(path, ...): its value, its time, and
\* whether an invalidate, a matching invalidate_by_pattern or a clear followed
NeverSet == [known |-> FALSE, size |-> 0, is_icloud |-> FALSE, at |-> 0, dead |-> FALSE]
LastSet(size, is_icloud) ==
  [known |-> TRUE, size |-> size, is_icloud |-> is_icloud, at |-> now, dead |-> FALSE]

\* no ReclaimedApp has been built on the scanner
NoApp ==
  /\ removed = {}
  /\ app_largest_files = <<>> /\ app_largest_dirs = <<>>
  /\ files_buffer = <<>> /\ dirs_buffer = <<>>
  /\ files_alias = FALSE /\ dirs_alias = FALSE
  /\ seen = 0 /\ worker = "none" /\ app_scans = 0
  /\ hidden_dirs = {} /\ _hidden_cache = <<>>
  /\ files_table = <<>> /\ dirs_table = <<>>
  /\ _last_table_items = [files |-> <<>>, dirs |-> <<>>]
  /\ current_focus = "files"
  /\ dialog = [open |-> FALSE, path |-> <<>>, is_dir |-> FALSE]
  /\ user_steps = 0
  /\ last_action = "none"
  /\ delete_errors = {}
  /\ saved = [called |-> FALSE]
  /\ shown = [rendered |-> FALSE]
  /\ stale = [alive |-> FALSE]
  /\ ring = [built |-> FALSE]

\* the threads that share one DirectorySizeCache
NumThreads == 2
Threads == 1..NumThreads

\* a thread between two calls, after calls calls: no locals
IdleThread(calls) ==
  [pc |-> "idle", op |-> "none", path |-> <<>>, pattern |-> <<>>, size |-> 0,
   is_icloud |-> FALSE, at |-> 0, seen |-> <<>>, keys |-> <<>>, has |-> FALSE,
   entry |-> CacheEntry(0, FALSE, 0, FALSE), n |-> 0, value |-> Absent,
   dirs |-> <<>>, err |-> "none", calls |-> calls]

\* a new DiskScanner(options) over the tree fs
Constructed ==
  /\ _access_issues = <<>>
  /\ _dir_sizes = <<>>
  /\ _total_size = 0
  /\ _file_count = 0
  /\ _update_counter = 0
  /\ _cache = <<>>
  /\ now = 1000
  /\ mode = "idle"
  /\ root_path = Root
  /\ pos = 0
  /\ largest_files = <<>>
  /\ largest_dirs = <<>>
  /\ paths_chunk = 0
  /\ last_dir_calc_time = 0
  /\ emitted = <<>>
  /\ outcome = "none"
  /\ completed = <<>>
  /\ scans = 0
  /\ signal = "none"
  /\ items = <<>>
  /\ inserted = <<>>
  /\ ret = Called("none", <<>>, <<>>, Absent, <<>>, 0)
  /\ last_set = [p \in CachePaths |-> NeverSet]
  /\ lock = 0
  /\ threads = [t \in Threads |-> IdleThread(0)]
  /\ NoApp

Init ==
  /\ fs \in Trees
  /\ options \in OptionSet
  /\ max_items = 1
  /\ Constructed

\* scan_start with the reset of the scan state moved before the is_dir() test
scan_start_reset_first(m, path) ==
  /\ mode = "idle"
  /\ scans < MaxScans
  /\ signal = "none"
  /\ scans' = scans + 1
  /\ root_path' = path
  /\ UNCHANGED <<fs, options, now, harness_vars, completed, signal, _update_counter, _cache>>
  /\ _access_issues' = <<>>
  /\ _dir_sizes' = <<>>
  /\ _total_size' = 0
  /\ _file_count' = 0
  /\ IF ~IsDir(path)
       THEN /\ outcome' = "InvalidPathError"
            /\ UNCHANGED <<mode, pos, largest_files, largest_dirs, paths_chunk,
                           last_dir_calc_time, emitted>>
       ELSE /\ outcome' = "running"
            /\ mode' = m
            /\ pos' = 0
            /\ largest_files' = <<>>
            /\ largest_dirs' = <<>>
            /\ paths_chunk' = 0
            /\ last_dir_calc_time' = 0
            /\ emitted' = <<>>

\* scan_start without "self._dir_sizes.clear()"
scan_start_keep_dir_sizes(m, path) ==
  /\ mode = "idle"
  /\ scans < MaxScans
  /\ signal = "none"
  /\ scans' = scans + 1
  /\ root_path' = path
  /\ UNCHANGED <<fs, options, now, harness_vars, completed, signal, _update_counter, _cache,
                 _dir_sizes>>
  /\ IF ~IsDir(path)
       THEN /\ outcome' = "InvalidPathError"
            /\ UNCHANGED <<_access_issues, _total_size, _file_count,
                           mode, pos, largest_files, largest_dirs, paths_chunk,
                           last_dir_calc_time, emitted>>
       ELSE /\ outcome' = "running"
            /\ _access_issues' = <<>>
            /\ _total_size' = 0
            /\ _file_count' = 0
            /\ mode' = m
            /\ pos' = 0
            /\ largest_files' = <<>>
            /\ largest_dirs' = <<>>
            /\ paths_chunk' = 0
            /\ last_dir_calc_time' = 0
            /\ emitted' = <<>>

\* scan(root_path) / scan_async(root_path) up to the first pull of the walker
scan_start(m, path) ==
  /\ mode = "idle"
  /\ scans < MaxScans
  /\ signal = "none"
  /\ scans' = scans + 1
  /\ root_path' = path
  /\ UNCHANGED <<fs, options, now, harness_vars, completed, signal, _update_counter, _cache>>
  /\ IF ~IsDir(path)
       THEN /\ outcome' = "InvalidPathError"
            /\ UNCHANGED <<_access_issues, _dir_sizes, _total_size, _file_count,
                           mode, pos, largest_files, largest_dirs, paths_chunk,
                           last_dir_calc_time, emitted>>
       ELSE /\ outcome' = "running"
            /\ _access_issues' = <<>>
            /\ _dir_sizes' = <<>>
            /\ _total_size' = 0
            /\ _file_count' = 0
            /\ mode' = m
            /\ pos' = 0
            /\ largest_files' = <<>>
            /\ largest_dirs' = <<>>
            /\ paths_chunk' = 0
            /\ last_dir_calc_time' = 0
            /\ emitted' = <<>>

Running == mode # "idle"
AtItem == Running /\ pos < Len(Walk(mode))
NextItem == Walk(mode)[pos + 1]

\* the call ends with an exception: nothing is returned
Fails(exc) ==
  /\ outcome' = exc
  /\ mode' = "idle"

\* the loop body of scan() for a yielded file
scan_file ==
  /\ mode = "scan" /\ AtItem /\ NextItem.ev = "file"
  /\ LET path == NextItem.path
         size == NextItem.size
         is_icloud == IsICloud(path)
         u == _update_dir_sizes(path, size, is_icloud)
     IN /\ _dir_sizes' = u.dir_sizes
        /\ _update_counter' = u.update_counter
        /\ _cache' = u.cache
        /\ largest_files' = Append(largest_files, FileInfo(path, size, is_icloud))
        /\ _total_size' = _total_size + size
        /\ _file_count' = _file_count + 1
  /\ pos' = pos + 1
  /\ UNCHANGED <<fs, options, now, harness_vars, _access_issues, mode, largest_dirs,
                 paths_chunk, last_dir_calc_time, emitted, outcome, completed, scans, root_path, signal>>

\* WorthInserting without "size > largest_files[-1].size": a full list is final
WorthInsertingUntilFull(l, size) ==
  l = <<>> \/ Len(l) < options.max_files

\* the test that guards the call of _insert_sorted in scan_async
WorthInserting(l, size) ==
  l = <<>> \/ Len(l) < options.max_files \/ size > l[Len(l)].size

\* the loop body of scan_async() for a yielded file
scan_async_file ==
  /\ mode = "scan_async" /\ AtItem /\ NextItem.ev = "file"
  /\ LET path == NextItem.path
         size == NextItem.size
         is_icloud == IsICloud(path)
         u == _update_dir_sizes(path, size, is_icloud)
         insert == WorthInserting(largest_files, size)
     IN /\ _dir_sizes' = u.dir_sizes
        /\ _update_counter' = u.update_counter
        /\ _cache' = u.cache
        /\ UNCHANGED <<fs, options, harness_vars, completed, scans, root_path, signal>>
        /\ IF insert /\ InsertSortedRaises(largest_files, options.max_files)
             THEN \* IndexError leaves _insert_sorted; which clause catches it
               LET how == Catch("consume", "IndexError") IN
                 /\ UNCHANGED <<now, largest_files, largest_dirs, _total_size, _file_count,
                                paths_chunk, last_dir_calc_time, emitted>>
                 /\ IF how = "record_file"
                      THEN /\ _access_issues' = _handle_access_error(_access_issues, path, "IndexError")
                           /\ pos' = pos + 1
                           /\ UNCHANGED <<mode, outcome>>
                      ELSE /\ Fails(how)
                           /\ UNCHANGED <<_access_issues, pos>>
             ELSE
               LET files == IF insert
                              THEN _insert_sorted(largest_files, FileInfo(path, size, is_icloud),
                                                  options.max_files)
                              ELSE largest_files
                   count == _file_count + 1
                   total == _total_size + size
                   full == paths_chunk + 1 >= ChunkSize
               IN /\ largest_files' = files
                  /\ _total_size' = total
                  /\ _file_count' = count
                  /\ pos' = pos + 1
                  /\ paths_chunk' = IF full THEN 0 ELSE paths_chunk + 1
                  /\ UNCHANGED <<_access_issues, mode, outcome>>
                  /\ IF full
                       THEN \E dt \in TimeSteps :
                         LET current_time == IF last_dir_calc_time = 0 THEN now
                                             ELSE last_dir_calc_time + dt
                         IN
                         /\ UNCHANGED now
                         /\ IF current_time - last_dir_calc_time >= dir_calc_interval(count)
                              THEN LET dirs == _get_largest_dirs(u.dir_sizes, root_path) IN
                                /\ largest_dirs' = dirs
                                /\ last_dir_calc_time' = current_time
                                /\ emitted' = Append(emitted,
                                     ScanProgress(ProgressEstimate(count),
                                                  Slice(files, options.max_files),
                                                  Slice(dirs, options.max_dirs),
                                                  count, total))
                              ELSE UNCHANGED <<largest_dirs, last_dir_calc_time, emitted>>
                       ELSE UNCHANGED <<now, largest_dirs, last_dir_calc_time, emitted>>

\* a yielded directory: both loops skip it
scan_dir ==
  /\ AtItem /\ NextItem.ev = "dir"
  /\ pos' = pos + 1
  /\ UNCHANGED <<fs, options, now, scanner_vars, harness_vars, mode, largest_files,
                 largest_dirs, paths_chunk, last_dir_calc_time, emitted, outcome,
                 completed, scans, root_path, signal>>

\* an exception inside the walker: recorded by _handle_access_error, or it
\* leaves the generator and ends the call
walk_error ==
  /\ AtItem /\ NextItem.ev \in {"issue", "raise"}
  /\ UNCHANGED <<fs, options, now, harness_vars, _dir_sizes, _total_size, _file_count,
                 _update_counter, _cache, largest_files, largest_dirs, paths_chunk,
                 last_dir_calc_time, emitted, completed, scans, root_path, signal>>
  /\ IF NextItem.ev = "issue"
       THEN /\ _access_issues' = _handle_access_error(_access_issues, NextItem.path,
                                                     NextItem.error)
            /\ pos' = pos + 1
            /\ UNCHANGED <<mode, outcome>>
       ELSE /\ Fails(NextItem.error)
            /\ UNCHANGED <<_access_issues, pos>>

\* scan() after the loop: sort, largest directories, ScanResult
scan_return ==
  /\ mode = "scan" /\ pos = Len(Walk(mode))
  /\ LET files == StableSortDesc(largest_files)
         dirs == _get_largest_dirs(_dir_sizes, root_path)
     IN /\ largest_files' = files
        /\ completed' = Append(completed,
             Returned("scan", Slice(files, options.max_files),
                      Slice(dirs, options.max_dirs), _total_size, _file_count,
                      _access_issues))
  /\ mode' = "idle"
  /\ outcome' = "ScanResult"
  /\ UNCHANGED <<fs, options, now, scanner_vars, harness_vars, pos, largest_dirs,
                 paths_chunk, last_dir_calc_time, emitted, scans, root_path, signal>>

\* scan_async() after the loop: the final ScanProgress
scan_async_final ==
  /\ mode = "scan_async" /\ pos = Len(Walk(mode))
  /\ LET dirs == _get_largest_dirs(_dir_sizes, root_path)
         final == ScanProgress(<<1, 1>>, Slice(largest_files, options.max_files),
                               Slice(dirs, options.max_dirs), _file_count, _total_size)
     IN /\ largest_dirs' = dirs
        /\ emitted' = Append(emitted, final)
        /\ completed' = Append(completed,
             Returned("scan_async", final.files, final.dirs, final.total_size,
                      final.scanned, <<>>))
  /\ mode' = "idle"
  /\ outcome' = "final"
  /\ UNCHANGED <<fs, options, now, scanner_vars, harness_vars, pos, largest_files,
                 paths_chunk, last_dir_calc_time, scans, root_path, signal>>

\* the points of the running scan at which a KeyboardInterrupt can arrive:
\* in the root listing, inside the walker, in the loop body, after the loop
InterruptSites ==
  (IF pos = 0 THEN {"scandir"} ELSE {})
  \cup (IF ~AtItem THEN {"return"}
        ELSE IF NextItem.ev = "file" THEN {"stat", "consume"}
        ELSE {"entry"})

\* KeyboardInterrupt raised at site; in the loop body it arrives after _update_dir_sizes
interrupt(site) ==
  /\ Running /\ signal = "none" /\ site \in InterruptSites
  /\ signal' = site
  /\ UNCHANGED <<fs, options, now, harness_vars, _total_size, _file_count, largest_files,
                 largest_dirs, paths_chunk, last_dir_calc_time, emitted, completed,
                 scans, root_path>>
  /\ IF site = "consume"
       THEN LET u == _update_dir_sizes(NextItem.path, NextItem.size, IsICloud(NextItem.path))
            IN /\ _dir_sizes' = u.dir_sizes
               /\ _update_counter' = u.update_counter
               /\ _cache' = u.cache
       ELSE UNCHANGED <<_dir_sizes, _update_counter, _cache>>
  /\ LET how == Catch(site, "KeyboardInterrupt") IN
       IF how \in {"record_entry", "record_dir", "record_file"}
         THEN /\ _access_issues' = _handle_access_error(_access_issues,
                   IF AtItem THEN NextItem.path ELSE root_path, "KeyboardInterrupt")
              /\ pos' = IF AtItem THEN pos + 1 ELSE pos
              /\ UNCHANGED <<mode, outcome>>
         ELSE /\ Fails(how)
              /\ UNCHANGED <<_access_issues, pos>>

\* one call of _insert_sorted(items, item, max_items) of the top-K harness
insert_call(size) ==
  /\ Len(inserted) < MaxInserts
  /\ LET item == FileInfo(<<"t", ToString(Len(inserted) + 1)>>, size, FALSE)
     IN /\ items' = _insert_sorted(items, item, max_items)
        /\ inserted' = Append(inserted, item)
  /\ UNCHANGED <<fs, options, now, scanner_vars, run_vars, max_items, cache_harness_vars,
               app_vars, export_vars>>

Next ==
  \/ \E m \in {"scan", "scan_async"}, path \in {Root, Missing} : scan_start(m, path)
  \/ scan_file
  \/ scan_async_file
  \/ scan_dir
  \/ walk_error
  \/ scan_return
  \/ scan_async_final

\* repeated scan()/scan_async() calls on one DiskScanner
Spec == Init /\ [][Next]_vars

NextInterrupt ==
  \/ scans = 0 /\ \E m \in {"scan", "scan_async"} : scan_start(m, Root)
  \/ scan_file
  \/ scan_async_file
  \/ scan_dir
  \/ walk_error
  \/ scan_return
  \/ scan_async_final
  \/ \E site \in {"scandir", "entry", "stat", "consume", "return"} : interrupt(site)

\* one scan()/scan_async() call that Ctrl+C may interrupt at any point
SpecInterrupt == Init /\ [][NextInterrupt]_vars

\* a tree of readable files, for the harness that drives _insert_sorted alone
PlainTree == [p \in Entries |-> IF p \in DirEntries THEN PlainDir ELSE HiddenFile]

InitInsert ==
  /\ fs = PlainTree
  /\ options = [max_files |-> MaxFiles, max_dirs |-> MaxDirs,
                skip_dirs |-> DefaultSkipDirs, icloud_base |-> {}]
  /\ max_items \in 1..MaxK
  /\ Constructed

NextInsert == \E size \in 0..MaxSize : insert_call(size)

\* every sequence of up to MaxInserts calls of _insert_sorted from an empty list
SpecInsert == InitInsert /\ [][NextInsert]_vars

(***************************************************************************)
(* DirectorySizeCache driven on its own, one call at a time, with a clock. *)
(***************************************************************************)
\* the clock is read up to MaxTime ticks after the construction
MaxTime == 4
\* the (size, is_icloud) pairs passed to set()
CacheValues == {<<1, FALSE>>, <<2, TRUE>>}
\* the patterns passed to invalidate_by_pattern()
Patterns == {<<"a">>, <<"b">>, <<"/", "b">>, <<"a", "/">>, <<"c">>, <<>>}

\* pattern occurs in str
Contains(str, pattern) ==
  \E i \in 0..(Len(str) - Len(pattern)) : SubSeq(str, i + 1, i + Len(pattern)) = pattern

cache_frame == UNCHANGED <<fs, options, now, _access_issues, _dir_sizes, _total_size,
                           _file_count, _update_counter, run_vars, items, max_items,
                           inserted, lock, threads, app_vars, export_vars>>

get(path) ==
  /\ LET g == CacheGet(_cache, path, now)
     IN /\ _cache' = g.cache
        /\ ret' = Called("get", path, <<>>, g.value, <<>>, 1 - ret.flip)
  /\ UNCHANGED last_set
  /\ cache_frame

set(path, size, is_icloud) ==
  /\ _cache' = CacheSet(_cache, path, size, is_icloud)
  /\ ret' = Called("set", path, <<>>, Absent, <<>>, 1 - ret.flip)
  /\ last_set' = [last_set EXCEPT ![path] = LastSet(size, is_icloud)]
  /\ cache_frame

get_all_cached_dirs ==
  /\ ret' = Called("get_all_cached_dirs", <<>>, <<>>, Absent,
                   CacheGetAllCachedDirs(_cache), 1 - ret.flip)
  /\ UNCHANGED <<_cache, last_set>>
  /\ cache_frame

invalidate(path) ==
  /\ _cache' = CacheInvalidate(_cache, path)
  /\ ret' = Called("invalidate", path, <<>>, Absent, <<>>, 1 - ret.flip)
  /\ last_set' = [last_set EXCEPT ![path].dead = TRUE]
  /\ cache_frame

invalidate_by_pattern(pattern) ==
  /\ _cache' = CacheInvalidateByPattern(_cache, pattern)
  /\ ret' = Called("invalidate_by_pattern", <<>>, pattern, Absent, <<>>, 1 - ret.flip)
  /\ last_set' = [p \in CachePaths |->
                    IF Contains(PathStr(p), pattern)
                      THEN [last_set[p] EXCEPT !.dead = TRUE]
                      ELSE last_set[p]]
  /\ cache_frame

clear ==
  /\ _cache' = CacheClear(_cache)
  /\ ret' = Called("clear", <<>>, <<>>, Absent, <<>>, 1 - ret.flip)
  /\ last_set' = [p \in CachePaths |-> [last_set[p] EXCEPT !.dead = TRUE]]
  /\ cache_frame

cleanup ==
  /\ _cache' = CacheCleanup(_cache, now)
  /\ ret' = Called("cleanup", <<>>, <<>>, Absent, <<>>, 1 - ret.flip)
  /\ UNCHANGED last_set
  /\ cache_frame

\* time passes
tick ==
  /\ now < 1000 + MaxTime
  /\ now' = now + 1
  /\ UNCHANGED <<fs, options, scanner_vars, run_vars, harness_vars>>

\* DirectorySizeCache(): an empty cache
InitCache ==
  /\ fs = PlainTree
  /\ options = [max_files |-> MaxFiles, max_dirs |-> MaxDirs,
                skip_dirs |-> DefaultSkipDirs, icloud_base |-> {}]
  /\ max_items = 1
  /\ Constructed

NextCache ==
  \/ \E path \in CachePaths : get(path)
  \/ \E path \in CachePaths, v \in CacheValues : set(path, v[1], v[2])
  \/ get_all_cached_dirs
  \/ \E path \in CachePaths : invalidate(path)
  \/ \E pattern \in Patterns : invalidate_by_pattern(pattern)
  \/ clear
  \/ cleanup
  \/ tick

\* every sequence of calls on one DirectorySizeCache, the clock ticking in between
SpecCache == InitCache /\ [][NextCache]_vars


(***************************************************************************)
(* What a scan of Root should see, stated on the tree alone.               *)
(***************************************************************************)
\* the walkers enter d: a real directory, listable, not on the skip list
Entered(d) ==
  /\ fs[d].is_dir /\ ~fs[d].is_symlink
  /\ fs[d].entry_err = "none" /\ fs[d].list_err = "none"
  /\ Name(d) \notin options.skip_dirs

\* every directory between Root and p is entered
Reached(p) == \A d \in DirEntries : InParents(d, p) => Entered(d)

\* the files whose stat succeeded
ReadFiles ==
  {f \in FileEntries : Reached(f) /\ ~fs[f].is_symlink
                         /\ fs[f].entry_err = "none" /\ fs[f].stat_err = "none"}

\* the error of the operation that failed at p, "none" if none was tried or none failed
FailureAt(p) ==
  IF ~Reached(p) THEN "none"
  ELSE IF fs[p].entry_err # "none" THEN fs[p].entry_err
  ELSE IF fs[p].is_symlink THEN "none"
  ELSE IF ~fs[p].is_dir THEN fs[p].stat_err
  ELSE IF Name(p) \in options.skip_dirs THEN "none"
  ELSE fs[p].list_err

FailedPaths == {p \in Entries : FailureAt(p) # "none"}

RECURSIVE SumSizes(_)
SumSizes(S) ==
  IF S = {} THEN 0
  ELSE LET f == CHOOSE x \in S : TRUE IN fs[f].size + SumSizes(S \ {f})

\* the bytes of the read files transitively under D
TrueSize(D) == SumSizes({f \in ReadFiles : InParents(D, f)})

HasKey(d, p) == \E i \in DOMAIN d : d[i].path = p
Sizes(l) == [i \in DOMAIN l |-> l[i].size]
SortedDesc(l) == \A i, j \in DOMAIN l : i < j => l[i].size >= l[j].size
Min(a, b) == IF a < b THEN a ELSE b
Max(a, b) == IF a > b THEN a ELSE b
Returns == {"ScanResult", "final"}

\* how many of the K largest read files have size v
TopCount(K, v) ==
  Min(Cardinality({f \in ReadFiles : fs[f].size = v}),
      Max(0, K - Cardinality({f \in ReadFiles : fs[f].size > v})))

(***************************************************************************)
(* C1 - directory sizes.                                                   *)
(***************************************************************************)
\* C1: once scan() or scan_async() has returned, the size recorded for every
\* directory D at or below the root is the sum of the sizes of the files under D
\* whose stat succeeded (files that failed, or that lie under a directory that
\* could not be listed, add nothing), and D has a record exactly when such a
\* file exists.
C1_DirSizes ==
  outcome \in Returns =>
    \A D \in {Root} \cup DirEntries :
      /\ DirGet(_dir_sizes, D).size = TrueSize(D)
      /\ HasKey(_dir_sizes, D) <=> (\E f \in ReadFiles : InParents(D, f))

\* a returned scan in which a stat failed, a listing failed and D1 counts only g1
C1_Witness ==
  /\ outcome \in Returns
  /\ fs[F1].stat_err # "none" /\ fs[E].list_err # "none"
  /\ fs[G1].size = MaxSize
  /\ DirGet(_dir_sizes, D1).size = MaxSize
  /\ DirGet(_dir_sizes, Root).size = MaxSize

(***************************************************************************)
(* C2 - _insert_sorted.                                                    *)
(***************************************************************************)
\* position of a harness item in the order of the calls
CallIndex(item) == CHOOSE i \in DOMAIN inserted : inserted[i].path = item.path

\* C2: after N calls of _insert_sorted(items, item, K) from an empty list, K >= 1,
\* the list has min(K, N) items, is sorted by size descending, and items of equal
\* size stand in the order of their calls.
C2_InsertSorted ==
  inserted # <<>> =>
    /\ Len(items) = Min(max_items, Len(inserted))
    /\ SortedDesc(items)
    /\ \A i, j \in DOMAIN items :
         i < j /\ items[i].size = items[j].size => CallIndex(items[i]) < CallIndex(items[j])

\* a full list in which the binary search placed an item between larger and
\* smaller ones, after an equal one, and the smallest was dropped
C2_Witness ==
  /\ max_items = 3 /\ Len(inserted) = 4
  /\ Sizes(inserted) = <<2, 1, 0, 1>>
  /\ Sizes(items) = <<2, 1, 1>>

(***************************************************************************)
(* C3 - the K largest files.                                               *)
(***************************************************************************)
\* C3: for max_files = K >= 1 the files returned by scan() and by the terminal
\* snapshot of scan_async() are K largest read files: distinct files whose stat
\* succeeded, with their sizes, and as a multiset of sizes the K largest.
C3_TopK ==
  options.max_files >= 1 =>
    \A n \in DOMAIN completed :
      LET files == completed[n].files IN
        /\ \A i \in DOMAIN files :
             files[i].path \in ReadFiles /\ files[i].size = fs[files[i].path].size
        /\ \A i, j \in DOMAIN files : i # j => files[i].path # files[j].path
        /\ \A v \in 0..MaxSize :
             Cardinality({i \in DOMAIN files : files[i].size = v})
               = TopCount(options.max_files, v)

\* scan_async met the largest file last, after its list was full
C3_Witness ==
  /\ options.max_files = 2
  /\ Cardinality(ReadFiles) = 3
  /\ fs[K1].size = 2 /\ fs[F1].size = 0 /\ fs[G1].size = 1
  /\ \E n \in DOMAIN completed :
       completed[n].call = "scan_async" /\ Sizes(completed[n].files) = <<2, 1>>


(***************************************************************************)
(* C4 - the progress stream of scan_async.                                 *)
(***************************************************************************)
\* fractions <<num, den>> with positive denominators
FracLess(a, b) == a[1] * b[2] < b[1] * a[2]
FracLeq(a, b) == a[1] * b[2] <= b[1] * a[2]
One == <<1, 1>>

\* C4: over the ScanProgress values of one scan_async() run, scanned and progress
\* never decrease, every emission but the last has progress below 1.0, and a run
\* that is not interrupted ends with exactly one emission of progress 1.0, the last.
C4_ProgressStream ==
  [][/\ \A i, j \in DOMAIN emitted' :
          i < j => /\ emitted'[i].scanned <= emitted'[j].scanned
                   /\ FracLeq(emitted'[i].progress, emitted'[j].progress)
     /\ \A i \in DOMAIN emitted' :
          i < Len(emitted') => FracLess(emitted'[i].progress, One)
     /\ (mode = "scan_async" /\ mode' = "idle" /\ outcome' # "ScanInterruptedError")
          => /\ emitted' # <<>>
             /\ emitted'[Len(emitted')].progress = One]_vars

(***************************************************************************)
(* C5 - scan() against scan_async().                                       *)
(***************************************************************************)
\* C5: the terminal snapshot of scan_async() carries the files list, directories
\* list, files_scanned and total_size that scan() returns for the same tree and
\* the same options.
C5_SameResult ==
  \A i, j \in DOMAIN completed :
    completed[i].call = "scan" /\ completed[j].call = "scan_async" =>
      /\ completed[i].files = completed[j].files
      /\ completed[i].directories = completed[j].directories
      /\ completed[i].files_scanned = completed[j].files_scanned
      /\ completed[i].total_size = completed[j].total_size

(***************************************************************************)
(* C6 - access failures.                                                   *)
(***************************************************************************)
\* C6: a path is in the access-issue map only if an operation on it failed, with
\* the kind of that error; and a scan in which an operation failed still ends
\* normally with a result, having recorded every failure and read every file
\* of the rest of the tree.
C6_AccessIssues ==
  [][/\ \A p \in DOMAIN _access_issues' : _access_issues'[p] = FailureAt(p)
     /\ (Running /\ mode' = "idle" /\ _access_issues' # <<>>)
          => /\ outcome' \in Returns
             /\ DOMAIN _access_issues' = FailedPaths
             /\ _file_count' = Cardinality(ReadFiles)]_vars

(***************************************************************************)
(* C7 - a root that is not a directory.                                    *)
(***************************************************************************)
\* C7: a call of scan()/scan_async() whose root is not a directory ends with
\* InvalidPathError at once: the walker is not pulled, nothing is emitted or
\* returned, and the directory aggregates, total size, file count and access
\* issues left by the scan before are unchanged.
C7_InvalidPath ==
  [][(scans' # scans /\ ~IsDir(root_path'))
       => /\ outcome' = "InvalidPathError"
          /\ mode' = "idle"
          /\ UNCHANGED <<_access_issues, _dir_sizes, _total_size, _file_count,
                         pos, emitted, completed>>]_vars

\* the second call has a bad root, after a scan that left sizes and an issue
C7_Witness ==
  /\ scans = 2 /\ outcome = "InvalidPathError"
  /\ ~IsDir(root_path)
  /\ _total_size > 0 /\ _dir_sizes # <<>> /\ _access_issues # <<>>

(***************************************************************************)
(* C8 - interruption.                                                      *)
(***************************************************************************)
\* C8: a KeyboardInterrupt raised at any point of the traversal ends the call
\* with ScanInterruptedError: it is never swallowed, never another failure, and
\* never recorded as an access issue.
C8_Interrupted ==
  signal # "none" =>
    /\ mode = "idle"
    /\ outcome = "ScanInterruptedError"
    /\ \A p \in DOMAIN _access_issues : _access_issues[p] # "KeyboardInterrupt"

\* interrupted inside the walker, at the stat of a nested file, after a file was read
C8_Witness ==
  /\ signal = "stat" /\ outcome = "ScanInterruptedError"
  /\ _file_count = 1 /\ pos >= 2

(***************************************************************************)
(* C9 - what an interrupted scan hands back.                               *)
(***************************************************************************)
\* C9: interrupting a scan after 0 < N < total files hands back an "interrupted"
\* result with the partial state: non-empty files and dirs, sorted descending,
\* taken from the files a full scan reads.
C9_PartialResult ==
  [][(signal' # signal /\ 0 < _file_count /\ _file_count < Cardinality(ReadFiles))
       => /\ Len(completed') = Len(completed) + 1
          /\ LET r == completed'[Len(completed')] IN
               /\ r.files # <<>> /\ r.directories # <<>>
               /\ SortedDesc(r.files) /\ SortedDesc(r.directories)
               /\ \A i \in DOMAIN r.files : r.files[i].path \in ReadFiles]_vars

(***************************************************************************)
(* C10 - scanning twice.                                                   *)
(***************************************************************************)
\* C10: two scans of the unchanged tree by the same call, the first on the new
\* scanner and the second on the used one, return identical files, directories,
\* total size, file count and access issues.
C10_Idempotent ==
  \A i, j \in DOMAIN completed :
    completed[i].call = completed[j].call => completed[i] = completed[j]

\* scan() returned twice; the first run left sizes, an issue and cache entries
C10_Witness ==
  /\ Len(completed) = 2
  /\ completed[1].call = "scan" /\ completed[2].call = "scan"
  /\ completed[2].total_size > 0
  /\ DOMAIN completed[2].access_issues # {}
  /\ _cache # <<>>

(***************************************************************************)
(* C11 - a list that holds every file accounts for every byte.             *)
(***************************************************************************)
RECURSIVE SumSeq(_)
SumSeq(l) == IF l = <<>> THEN 0 ELSE Head(l).size + SumSeq(Tail(l))

\* C11: in every result of scan() or scan_async() over the root, when max_files
\* is at least the number of files that were read, the sizes of the returned
\* files add up to total_size and files_scanned is the number of returned files.
C11_AllFilesAccounted ==
  (outcome \in Returns /\ Cardinality(ReadFiles) <= options.max_files) =>
    LET r == completed[Len(completed)]
    IN /\ SumSeq(r.files) = r.total_size
       /\ Len(r.files) = r.files_scanned
       /\ r.files_scanned = Cardinality(ReadFiles)

\* a result that returns MaxFiles files of positive size with max_files = MaxFiles
C11_Witness ==
  /\ outcome \in Returns
  /\ options.max_files = MaxFiles
  /\ Cardinality(ReadFiles) = MaxFiles
  /\ Len(completed[Len(completed)].files) = MaxFiles
  /\ completed[Len(completed)].total_size >= MaxFiles

(***************************************************************************)
(* C12 - the storage-class flag of a directory.                            *)
(***************************************************************************)
\* the files the running scan has aggregated so far
Aggregated ==
  {Walk(mode)[j].path : j \in {i \in 1..pos : Walk(mode)[i].ev = "file"}}

\* C12: at every point of a running scan a directory's is_icloud flag is set
\* exactly when a file already aggregated under it was classified iCloud, and
\* a flag that is set is never found cleared after a step unless that step
\* starts a new scan.
C12_CloudFlag ==
  /\ [](Running =>
          \A i \in DOMAIN _dir_sizes :
            _dir_sizes[i].is_icloud <=>
              \E f \in Aggregated : InParents(_dir_sizes[i].path, f) /\ IsICloud(f))
  /\ [][\A i \in DOMAIN _dir_sizes :
          (_dir_sizes[i].is_icloud /\ ~DirGet(_dir_sizes', _dir_sizes[i].path).is_icloud)
            => (scans' = scans + 1 /\ outcome' = "running")]_vars

\* mid-scan: the root is flagged by an iCloud file under d1 and a local file
\* of the root has been aggregated as well
C12_Witness ==
  /\ Running /\ AtItem
  /\ DirGet(_dir_sizes, Root).is_icloud
  /\ DirGet(_dir_sizes, D1).is_icloud
  /\ F1 \in Aggregated /\ ~IsICloud(F1)
  /\ \E f \in Aggregated : IsICloud(f)


(***************************************************************************)
(* Scans on a scanner whose cache is in any state and may be emptied       *)
(* while the scan runs.                                                    *)
(***************************************************************************)
\* a size no directory of the tree has
BogusSize == 3 * MaxSize + 1
\* caches left by earlier use: empty, filled and fresh, filled and expired, invalidated
ScanCaches ==
  {<<>>} \cup
  {<<Slot(PathStr(Root), CacheEntry(BogusSize, cloud, ts, valid)),
     Slot(PathStr(D1), CacheEntry(BogusSize, cloud, ts, valid))>> :
       cloud \in {TRUE}, ts \in {StaleTime, 1000}, valid \in BOOLEAN}

InitCached ==
  /\ fs \in Trees
  /\ options \in [max_files : {1, MaxFiles}, max_dirs : {MaxDirs},
                   skip_dirs : {DefaultSkipDirs}, icloud_base : {{}}]
  /\ max_items = 1
  /\ _access_issues = <<>> /\ _dir_sizes = <<>> /\ _total_size = 0
  /\ _file_count = 0 /\ _update_counter = 0
  /\ _cache \in ScanCaches
  /\ now = 1000
  /\ mode = "idle" /\ root_path = Root /\ pos = 0
  /\ largest_files = <<>> /\ largest_dirs = <<>> /\ paths_chunk = 0
  /\ last_dir_calc_time = 0 /\ emitted = <<>> /\ outcome = "none"
  /\ completed = <<>> /\ scans = 0 /\ signal = "none"
  /\ items = <<>> /\ inserted = <<>>
  /\ ret = Called("none", <<>>, <<>>, Absent, <<>>, 0)
  /\ last_set = [p \in CachePaths |-> NeverSet]
  /\ lock = 0
  /\ threads = [t \in Threads |-> IdleThread(0)]
  /\ NoApp

NextCached ==
  \/ \E m \in {"scan", "scan_async"} : scan_start(m, Root)
  \/ scan_file
  \/ scan_async_file
  \/ scan_dir
  \/ walk_error
  \/ scan_return
  \/ scan_async_final
  \/ Running /\ _cache # <<>> /\ clear

\* scans of one tree from every state of the cache
SpecCached == InitCached /\ [][NextCached]_vars

(***************************************************************************)
(* DirectorySizeCache called from several threads: every method takes      *)
(* self._lock, runs its statements one at a time, and releases the lock.   *)
(***************************************************************************)
\* calls made by the threads together
MaxCalls == 3

RECURSIVE CallsMade(_)
CallsMade(T) ==
  IF T = {} THEN 0
  ELSE LET t == CHOOSE x \in T : TRUE IN threads[t].calls + CallsMade(T \ {t})

\* RLock.acquire() returning at once whoever holds the lock
LockIgnored(t) == TRUE

\* RLock.acquire() returns for t: nobody else holds the lock
LockFree(t) == lock \in {0, t}

threads_frame == UNCHANGED <<fs, options, now, _access_issues, _dir_sizes, _total_size,
                             _file_count, _update_counter, run_vars, items, max_items,
                             inserted, ret, last_set, app_vars, export_vars>>

\* thread t enters a method; cleanup() reads the clock before it takes the lock
call(t, op, path, pattern, size, is_icloud) ==
  /\ threads[t].pc = "idle" /\ CallsMade(Threads) < MaxCalls
  /\ threads' = [threads EXCEPT ![t] =
        [IdleThread(threads[t].calls + 1) EXCEPT
           !.pc = "acquire", !.op = op, !.path = path, !.pattern = pattern,
           !.size = size, !.is_icloud = is_icloud, !.at = now]]
  /\ UNCHANGED <<lock, _cache>>
  /\ threads_frame

\* self._lock.acquire()
acquire(t) ==
  /\ threads[t].pc = "acquire" /\ LockFree(t)
  /\ lock' = t
  /\ threads' = [threads EXCEPT ![t].pc = "body", ![t].seen = _cache]
  /\ UNCHANGED _cache
  /\ threads_frame

\* the first statement under the lock
body(t) ==
  /\ threads[t].pc = "body"
  /\ LET th == threads[t]
         key == PathStr(th.path)
     IN CASE th.op = "get" ->
               /\ threads' = [threads EXCEPT ![t].pc = "get_check",
                     ![t].has = HasSlot(_cache, key),
                     ![t].entry = IF HasSlot(_cache, key)
                                    THEN _cache[SlotOf(_cache, key)].entry ELSE th.entry]
               /\ UNCHANGED _cache
          [] th.op = "set" ->
               /\ _cache' = CacheSet(_cache, th.path, th.size, th.is_icloud)
               /\ threads' = [threads EXCEPT ![t].pc = "release"]
          [] th.op = "get_all_cached_dirs" ->
               /\ threads' = [threads EXCEPT ![t].pc = "all_loop", ![t].n = 0]
               /\ UNCHANGED _cache
          [] th.op = "invalidate" ->
               /\ threads' = [threads EXCEPT
                     ![t].pc = IF HasSlot(_cache, key) THEN "inv_set" ELSE "release"]
               /\ UNCHANGED _cache
          [] th.op = "invalidate_by_pattern" ->
               /\ threads' = [threads EXCEPT ![t].pc = "pat_loop",
                     ![t].keys = [i \in DOMAIN _cache |-> _cache[i].key]]
               /\ UNCHANGED _cache
          [] th.op = "clear" ->
               /\ _cache' = <<>>
               /\ threads' = [threads EXCEPT ![t].pc = "release"]
          [] th.op = "cleanup" ->
               /\ LET dead == SelectSeq(_cache, LAMBDA x :
                                ~x.entry.valid \/ Expired(x.entry, th.at))
                  IN threads' = [threads EXCEPT ![t].pc = "cleanup_loop",
                       ![t].keys = [i \in DOMAIN dead |-> dead[i].key]]
               /\ UNCHANGED _cache
  /\ UNCHANGED lock
  /\ threads_frame

\* get(): "if entry and entry.valid", the expiry test, the return
get_check(t) ==
  /\ threads[t].pc = "get_check"
  /\ LET th == threads[t]
         key == PathStr(th.path)
     IN IF th.has /\ th.entry.valid
          THEN IF Expired(th.entry, now)
                 THEN \* entry.valid = False reaches the map if the entry is still in it
                   /\ _cache' = IF HasSlot(_cache, key)
                                    /\ _cache[SlotOf(_cache, key)].entry = th.entry
                                  THEN Invalidated(_cache, key) ELSE _cache
                   /\ threads' = [threads EXCEPT ![t].pc = "release", ![t].value = Absent]
                 ELSE
                   /\ UNCHANGED _cache
                   /\ threads' = [threads EXCEPT ![t].pc = "release",
                                                 ![t].value = Present(th.entry)]
          ELSE /\ UNCHANGED _cache
               /\ threads' = [threads EXCEPT ![t].pc = "release", ![t].value = Absent]
  /\ UNCHANGED lock
  /\ threads_frame

\* invalidate(): "self._cache[path_str].valid = False"
inv_set(t) ==
  /\ threads[t].pc = "inv_set"
  /\ LET key == PathStr(threads[t].path)
     IN IF HasSlot(_cache, key)
          THEN /\ _cache' = Invalidated(_cache, key)
               /\ threads' = [threads EXCEPT ![t].pc = "release"]
          ELSE /\ UNCHANGED _cache
               /\ threads' = [threads EXCEPT ![t].pc = "release", ![t].err = "KeyError"]
  /\ UNCHANGED lock
  /\ threads_frame

\* invalidate_by_pattern(): one turn of the loop over list(self._cache.keys())
pat_loop(t) ==
  /\ threads[t].pc = "pat_loop"
  /\ LET th == threads[t]
     IN IF th.keys = <<>>
          THEN /\ UNCHANGED _cache
               /\ threads' = [threads EXCEPT ![t].pc = "release"]
          ELSE LET key == Head(th.keys) IN
               IF ~StrFind(th.pattern, key, 0)
                 THEN /\ UNCHANGED _cache
                      /\ threads' = [threads EXCEPT ![t].keys = Tail(th.keys)]
               ELSE IF HasSlot(_cache, key)
                 THEN /\ _cache' = Invalidated(_cache, key)
                      /\ threads' = [threads EXCEPT ![t].keys = Tail(th.keys)]
                 ELSE /\ UNCHANGED _cache
                      /\ threads' = [threads EXCEPT ![t].pc = "release",
                                                    ![t].err = "KeyError"]
  /\ UNCHANGED lock
  /\ threads_frame

\* cleanup(): one turn of the loop "del self._cache[path_str]" over to_remove
cleanup_loop(t) ==
  /\ threads[t].pc = "cleanup_loop"
  /\ LET th == threads[t]
     IN IF th.keys = <<>>
          THEN /\ UNCHANGED _cache
               /\ threads' = [threads EXCEPT ![t].pc = "release"]
          ELSE LET key == Head(th.keys) IN
               IF HasSlot(_cache, key)
                 THEN /\ _cache' = SelectSeq(_cache, LAMBDA x : x.key # key)
                      /\ threads' = [threads EXCEPT ![t].keys = Tail(th.keys)]
                 ELSE /\ UNCHANGED _cache
                      /\ threads' = [threads EXCEPT ![t].pc = "release",
                                                    ![t].err = "KeyError"]
  /\ UNCHANGED lock
  /\ threads_frame

\* get_all_cached_dirs(): one turn of the iteration over self._cache.items();
\* the iterator raises when the dict changed size under it
all_loop(t) ==
  /\ threads[t].pc = "all_loop"
  /\ LET th == threads[t]
     IN IF th.n = 0 /\ th.keys = <<>> /\ _cache # <<>>
          THEN \* the iteration starts: it is over the slots present now
            threads' = [threads EXCEPT ![t].keys = [i \in DOMAIN _cache |-> _cache[i].key],
                                       ![t].n = 1]
        ELSE IF th.n = 0 \/ th.n > Len(th.keys)
          THEN threads' = [threads EXCEPT ![t].pc = "release"]
        ELSE IF Len(_cache) # Len(th.keys)
          THEN threads' = [threads EXCEPT ![t].pc = "release", ![t].err = "RuntimeError",
                                          ![t].dirs = <<>>]
        ELSE threads' = [threads EXCEPT ![t].n = th.n + 1,
               ![t].dirs = IF _cache[th.n].entry.valid
                             THEN Append(th.dirs, StrPath(_cache[th.n].key))
                             ELSE th.dirs]
  /\ UNCHANGED <<lock, _cache>>
  /\ threads_frame

\* finally: self._lock.release(); the call returns
release(t) ==
  /\ threads[t].pc = "release"
  /\ lock' = IF lock = t THEN 0 ELSE lock
  /\ threads' = [threads EXCEPT ![t] = IdleThread(threads[t].calls)]
  /\ UNCHANGED _cache
  /\ threads_frame

\* the states a cache that has been in use for a while can be in
SlotStates ==
  {<<>>, <<CacheEntry(1, FALSE, 1000, TRUE)>>, <<CacheEntry(2, TRUE, StaleTime, TRUE)>>,
   <<CacheEntry(1, FALSE, 1000, FALSE)>>}
UsedCaches ==
  {[i \in DOMAIN (a \o b) |->
      Slot(PathStr(IF i <= Len(a) THEN <<"a", "b">> ELSE <<"b">>), (a \o b)[i])] :
     a \in SlotStates, b \in SlotStates}

InitThreads ==
  /\ fs = PlainTree
  /\ options = [max_files |-> MaxFiles, max_dirs |-> MaxDirs,
                skip_dirs |-> DefaultSkipDirs, icloud_base |-> {}]
  /\ max_items = 1
  /\ _access_issues = <<>> /\ _dir_sizes = <<>> /\ _total_size = 0
  /\ _file_count = 0 /\ _update_counter = 0
  /\ _cache \in UsedCaches
  /\ now = 1000
  /\ mode = "idle" /\ root_path = Root /\ pos = 0
  /\ largest_files = <<>> /\ largest_dirs = <<>> /\ paths_chunk = 0
  /\ last_dir_calc_time = 0 /\ emitted = <<>> /\ outcome = "none"
  /\ completed = <<>> /\ scans = 0 /\ signal = "none"
  /\ items = <<>> /\ inserted = <<>>
  /\ ret = Called("none", <<>>, <<>>, Absent, <<>>, 0)
  /\ last_set = [p \in CachePaths |-> NeverSet]
  /\ lock = 0
  /\ threads = [t \in Threads |-> IdleThread(0)]
  /\ NoApp

NextThreads ==
  \E t \in Threads :
    \/ \E path \in CachePaths : call(t, "get", path, <<>>, 0, FALSE)
    \/ \E path \in CachePaths, v \in CacheValues : call(t, "set", path, <<>>, v[1], v[2])
    \/ call(t, "get_all_cached_dirs", <<>>, <<>>, 0, FALSE)
    \/ \E path \in CachePaths : call(t, "invalidate", path, <<>>, 0, FALSE)
    \/ \E pattern \in {<<"a">>, <<"b">>} :
         call(t, "invalidate_by_pattern", <<>>, pattern, 0, FALSE)
    \/ call(t, "clear", <<>>, <<>>, 0, FALSE)
    \/ call(t, "cleanup", <<>>, <<>>, 0, FALSE)
    \/ acquire(t)
    \/ body(t)
    \/ get_check(t)
    \/ inv_set(t)
    \/ pat_loop(t)
    \/ cleanup_loop(t)
    \/ all_loop(t)
    \/ release(t)

\* threads calling the methods of one DirectorySizeCache in any interleaving
SpecThreads == InitThreads /\ [][NextThreads]_vars

(***************************************************************************)
(* C13 - what get() returns.                                               *)
(***************************************************************************)
\* C13: get(p) returns the (size, is_icloud) of the most recent set(p, ...)
\* exactly when there was one, no invalidate(p), matching invalidate_by_pattern
\* or clear came after it, and no more than the TTL has elapsed since it; in
\* every other case it returns nothing. set(p, ...) stores its value as a
\* valid entry stamped with the current time, whatever was there before.
C13_GetReturns ==
  /\ ret.op = "get" =>
       LET h == last_set[ret.path] IN
         ret.value = IF h.known /\ ~h.dead /\ ret.at - h.at <= Ttl
                       THEN [present |-> TRUE, size |-> h.size, is_icloud |-> h.is_icloud]
                       ELSE [present |-> FALSE, size |-> 0, is_icloud |-> FALSE]
  /\ ret.op = "set" =>
       \E i \in DOMAIN _cache :
         /\ _cache[i].key = PathStr(ret.path)
         /\ _cache[i].entry.timestamp = ret.at
         /\ _cache[i].entry.valid
         /\ _cache[i].entry.size = last_set[ret.path].size
         /\ _cache[i].entry.is_icloud = last_set[ret.path].is_icloud

\* a get that finds the value exactly Ttl after its set
C13_Witness ==
  /\ ret.op = "get" /\ ret.value.present
  /\ ret.at - last_set[ret.path].at = Ttl
  /\ ret.value.size = 2

(***************************************************************************)
(* C14 - invalidation flags, cleanup removes.                              *)
(***************************************************************************)
\* the step is a call of op
Calls(op) == ret'.flip # ret.flip /\ ret'.op = op

\* the slots of c, and the slots of c whose key is in keys flagged invalid
SameButFlagged(c, d, keys) ==
  /\ Len(d) = Len(c)
  /\ \A i \in DOMAIN c :
       /\ d[i].key = c[i].key
       /\ d[i].entry.size = c[i].entry.size
       /\ d[i].entry.is_icloud = c[i].entry.is_icloud
       /\ d[i].entry.timestamp = c[i].entry.timestamp
       /\ d[i].entry.valid = (c[i].entry.valid /\ c[i].key \notin keys)

\* C14: invalidate(p) and invalidate_by_pattern(s) remove no entry: they clear
\* the valid flag of the entry of p, respectively of the entries whose key
\* contains s, and change nothing else; cleanup() removes exactly the entries
\* that are invalid or older than the TTL and leaves the others as they were.
C14_InvalidateKeeps ==
  [][/\ Calls("invalidate") =>
          SameButFlagged(_cache, _cache', {PathStr(ret'.path)})
     /\ Calls("invalidate_by_pattern") =>
          SameButFlagged(_cache, _cache',
                         {_cache[i].key : i \in {j \in DOMAIN _cache :
                             Contains(_cache[j].key, ret'.pattern)}})
     /\ Calls("cleanup") =>
          /\ \A i \in DOMAIN _cache :
               (\E j \in DOMAIN _cache' : _cache'[j] = _cache[i])
                 <=> (_cache[i].entry.valid /\ now - _cache[i].entry.timestamp <= Ttl)
          /\ \A j \in DOMAIN _cache' : \E i \in DOMAIN _cache : _cache[i] = _cache'[j]
          /\ Len(_cache') = Cardinality({_cache'[j].key : j \in DOMAIN _cache'})
    ]_vars

\* an invalidated entry is still in the map next to a valid one
C14_Witness ==
  /\ ret.op \in {"invalidate", "invalidate_by_pattern"}
  /\ Len(_cache) = 2
  /\ ~_cache[1].entry.valid /\ _cache[2].entry.valid

(***************************************************************************)
(* C15 - the methods of the cache are atomic.                              *)
(***************************************************************************)
\* the method of thread record th run in one piece on the cache c: the cache
\* afterwards, the value and the list returned
InOnePiece(th, c) ==
  CASE th.op = "get" ->
         [cache |-> CacheGet(c, th.path, now).cache,
          value |-> CacheGet(c, th.path, now).value, dirs |-> <<>>]
    [] th.op = "set" ->
         [cache |-> CacheSet(c, th.path, th.size, th.is_icloud),
          value |-> Absent, dirs |-> <<>>]
    [] th.op = "get_all_cached_dirs" ->
         [cache |-> c, value |-> Absent, dirs |-> CacheGetAllCachedDirs(c)]
    [] th.op = "invalidate" ->
         [cache |-> CacheInvalidate(c, th.path), value |-> Absent, dirs |-> <<>>]
    [] th.op = "invalidate_by_pattern" ->
         [cache |-> CacheInvalidateByPattern(c, th.pattern), value |-> Absent, dirs |-> <<>>]
    [] th.op = "clear" ->
         [cache |-> CacheClear(c), value |-> Absent, dirs |-> <<>>]
    [] th.op = "cleanup" ->
         [cache |-> CacheCleanup(c, th.at), value |-> Absent, dirs |-> <<>>]

\* C15: whatever the interleaving of the threads, a method that is about to
\* return has had the effect and produces the result of running in one piece
\* on the cache it found when it took the lock, it raised nothing, no two
\* threads are inside a method body at once, and a value returned by get is a
\* (size, is_icloud) pair that one set() stored.
C15_Atomic ==
  /\ \A t \in Threads :
       threads[t].pc = "release" =>
         LET th == threads[t]
             a == InOnePiece(th, th.seen)
         IN /\ th.err = "none"
            /\ _cache = a.cache
            /\ th.value = a.value
            /\ th.dirs = a.dirs
            /\ th.value.present => <<th.value.size, th.value.is_icloud>> \in CacheValues
  /\ \A t, u \in Threads :
       (t # u /\ threads[t].pc \notin {"idle", "acquire"})
         => threads[u].pc \in {"idle", "acquire"}

\* a thread finishes invalidate_by_pattern while another waits for the lock with a clear
C15_Witness ==
  \E t, u \in Threads :
    /\ threads[t].pc = "release" /\ threads[t].op = "invalidate_by_pattern"
    /\ \E i \in DOMAIN _cache : ~_cache[i].entry.valid /\ threads[t].seen[i].entry.valid
    /\ threads[u].pc = "acquire" /\ threads[u].op = "clear"

(***************************************************************************)
(* C16 - the cache never decides a result.                                 *)
(***************************************************************************)
\* C16: whatever the cache held when the scan started (nothing, fresh, expired
\* or invalidated entries) and whether or not it was emptied while the scan
\* ran, a result is what the tree and the options alone determine: the file
\* count and total size are those of the read files, every returned file and
\* directory carries its size and storage class on disk, the access issues
\* are the failures of the tree, and two results of the same call are equal.
C16_CacheIndependent ==
  /\ \A i \in DOMAIN completed :
       LET r == completed[i] IN
         /\ r.files_scanned = Cardinality(ReadFiles)
         /\ r.total_size = SumSizes(ReadFiles)
         /\ \A k \in DOMAIN r.files :
              /\ r.files[k].path \in ReadFiles
              /\ r.files[k].size = fs[r.files[k].path].size
              /\ r.files[k].is_icloud = IsICloud(r.files[k].path)
         /\ \A k \in DOMAIN r.directories :
              /\ r.directories[k].size = TrueSize(r.directories[k].path)
              /\ r.directories[k].is_icloud =
                   (\E f \in ReadFiles : InParents(r.directories[k].path, f) /\ IsICloud(f))
         /\ r.call = "scan" =>
              /\ DOMAIN r.access_issues = FailedPaths
              /\ \A p \in FailedPaths : r.access_issues[p] = FailureAt(p)
  /\ \A i, j \in DOMAIN completed :
       completed[i].call = completed[j].call => completed[i] = completed[j]

\* a scan that started on a cache with fresh entries for the root and d1,
\* was run twice, and had its cache written
C16_Witness ==
  /\ Len(completed) = 2
  /\ completed[1].call = completed[2].call
  /\ completed[2].total_size > 0
  /\ \E i \in DOMAIN _cache :
       _cache[i].key = PathStr(Root) /\ _cache[i].entry.size # BogusSize

(***************************************************************************)
(* ReclaimedApp: the tables and how they are rendered.  A FileInfo is      *)
(* modelled by its path, size and is_icloud; the "Modified" cell of a row  *)
(* plays no part in hiding, unhiding or deleting and is left out.          *)
(***************************************************************************)
\* max_files and max_dirs that run_textual_ui gives the scanner
AppMaxItems == 1000
\* user_max_files and user_max_dirs: max_files and max_dirs of run_textual_ui
UserMaxItems == 100
\* self.size.height of the terminal
ScreenHeight == 24
\* ReclaimedApp.path
AppPath == Root

\* len(path.parts) of an absolute path: "/" is a part
Parts(p) == Len(p) + 1
\* a.is_relative_to(b)
IsRelativeTo(a, b) == a = b \/ InParents(b, a)
Abs(x) == IF x < 0 THEN -x ELSE x

\* scan_dir_size: the size of the first entry for the scanned directory, else 0
ScanDirSizeAt(path, dirs) ==
  LET at == {i \in DOMAIN dirs : dirs[i].path = path}
  IN IF at = {} THEN 0 ELSE dirs[CHOOSE i \in at : \A j \in at : i <= j].size
\* scan_dir_size of the app, whose self.path is AppPath
ScanDirSize(dirs) == ScanDirSizeAt(AppPath, dirs)

\* abs(size - scan_dir_size) / scan_dir_size < 0.01, for scan_dir_size > 0
WithinOnePercent(size, scan_dir_size) ==
  scan_dir_size > 0 /\ 100 * Abs(size - scan_dir_size) < scan_dir_size

\* the directories-table tests that drop an entry: a parent of the scanned
\* directory of the same size, "/" and the top-level directories
SkippedDirAt(path, item, scan_dir_size) ==
  \/ /\ IsRelativeTo(path, item.path) /\ item.path # path
     /\ WithinOnePercent(item.size, scan_dir_size)
  \/ PathStr(item.path) = <<"/">>
  \/ Parts(item.path) <= 2 /\ item.path # path
\* the same tests in the app, whose self.path is AppPath
SkippedDir(item, scan_dir_size) == SkippedDirAt(AppPath, item, scan_dir_size)

\* a parent of the scanned directory more than two levels up
DistantParentAt(path, item) ==
  /\ IsRelativeTo(path, item.path) /\ item.path # path
  /\ Parts(path) - Parts(item.path) > 2
\* the same test in the app, whose self.path is AppPath
DistantParent(item) == DistantParentAt(AppPath, item)

\* the pre-filter of _update_table_if_changed
PreFilter(table_id, list) ==
  LET scan_dir_size == IF table_id = "dirs" THEN ScanDirSize(list) ELSE 0
  IN SelectSeq(list, LAMBDA item :
       /\ ~(table_id = "dirs" /\ SkippedDir(item, scan_dir_size))
       /\ ~DistantParent(item))

\* the first test of _is_hidden alone: the path itself is hidden
IsHiddenExact(path, hidden) == path \in hidden

\* _is_hidden without the cache: the path or one of its parents is hidden
IsHidden(path, hidden) ==
  path \in hidden \/ \E i \in 1..Len(path) : Parents(path)[i] \in hidden

\* _is_hidden: the cached answer if there is one, else the answer, now cached
_is_hidden(path, hidden, hcache) ==
  LET path_str == PathStr(path) IN
  IF path_str \in DOMAIN hcache
    THEN [hidden |-> hcache[path_str], cache |-> hcache]
    ELSE LET h == IsHidden(path, hidden)
         IN [hidden |-> h, cache |-> (path_str :> h) @@ hcache]

RECURSIVE FilterHidden(_, _, _)
\* the loop of _update_table over items that keeps what is not hidden
FilterHidden(list, hidden, hcache) ==
  IF list = <<>> THEN [kept |-> <<>>, cache |-> hcache]
  ELSE LET h == _is_hidden(Head(list).path, hidden, hcache)
           rest == FilterHidden(Tail(list), hidden, h.cache)
       IN [kept |-> IF h.hidden THEN rest.kept ELSE <<Head(list)>> \o rest.kept,
           cache |-> rest.cache]

\* a row of a DataTable: its key str(path), and the size cell
Row(item) == [key |-> PathStr(item.path), size |-> item.size]

\* _add_row_to_table: the entry gets a row unless one of the tests returns first
AddsRow(table_id, item, dirs) ==
  /\ ~(table_id = "dirs" /\ SkippedDir(item, ScanDirSize(dirs)))
  /\ ~DistantParent(item)

\* max_items of _update_table
DisplayLimit(user_max) == Max(user_max, Max(5, (ScreenHeight - 6) \div 2))

\* _update_table: the rows of the cleared table, and the _hidden_cache after
_update_table(table_id, list, dirs, hidden, hcache) ==
  LET f == FilterHidden(list, hidden, hcache)
      user_max == UserMaxItems
      display_items == Slice(f.kept, Min(DisplayLimit(user_max), Len(f.kept)))
  IN [rows |-> [i \in DOMAIN SelectSeq(display_items,
                                       LAMBDA item : AddsRow(table_id, item, dirs)) |->
                  Row(SelectSeq(display_items,
                                LAMBDA item : AddsRow(table_id, item, dirs))[i])],
      cache |-> f.cache]

\* the comparison of _update_table_if_changed: same length and the first
\* min(5, len) entries have the same path and size
SameTopItems(current_items, filtered_items) ==
  /\ Len(current_items) = Len(filtered_items)
  /\ \A i \in 1..Min(5, Len(filtered_items)) :
       /\ filtered_items[i].path = current_items[i].path
       /\ filtered_items[i].size = current_items[i].size

\* the tables and what decides their next rendering
TableState(files_rows, dirs_rows, last, hcache) ==
  [files |-> files_rows, dirs |-> dirs_rows, last |-> last, cache |-> hcache]

\* _update_table_if_changed on the table state st
_update_table_if_changed(table_id, list, dirs, hidden, st) ==
  IF list = <<>> THEN st
  ELSE LET filtered_items == PreFilter(table_id, list) IN
       IF SameTopItems(st.last[table_id], filtered_items) THEN st
       ELSE LET t == _update_table(table_id, list, dirs, hidden, st.cache)
            IN [st EXCEPT ![table_id] = t.rows,
                          !.last = [st.last EXCEPT ![table_id] = filtered_items],
                          !.cache = t.cache]

\* update_tables: the files table, then the directories table
update_tables(files, dirs, hidden, st) ==
  _update_table_if_changed("dirs", dirs, dirs, hidden,
    _update_table_if_changed("files", files, dirs, hidden, st))


(***************************************************************************)
(* ReclaimedApp: the scan worker and the keys.  One "Directory Scanner"    *)
(* worker runs at a time; the event loop takes a key between two steps of  *)
(* the worker, once the worker has taken what the scan has yielded.        *)
(***************************************************************************)
\* keys the user presses in one run
MaxUserActions == 2

\* every path there is: the tree, the scanned directory and its parents
AllPaths == Entries \cup {SubSeq(Root, 1, n) : n \in 0..Len(Root)}

St == TableState(files_table, dirs_table, _last_table_items, _hidden_cache)

SetTables(st) ==
  /\ files_table' = st.files
  /\ dirs_table' = st.dirs
  /\ _last_table_items' = st.last
  /\ _hidden_cache' = st.cache

scanner_state == <<fs, options, now, scanner_vars, run_vars, items, max_items, inserted,
                   cache_harness_vars, export_vars>>

\* apply_sort with sort_method "sort-size": list.sort(key=lambda x: -x.size)
apply_sort(list) == StableSortDesc(list)

\* scan_directory: the lists are new empty lists, a new worker is created
scan_directory ==
  /\ app_largest_files' = <<>>
  /\ app_largest_dirs' = <<>>
  /\ files_alias' = FALSE
  /\ dirs_alias' = FALSE
  /\ files_buffer' = <<>>
  /\ dirs_buffer' = <<>>
  /\ seen' = 0
  /\ worker' = "loop"
  /\ app_scans' = app_scans + 1

\* the worker reaches "async for progress in self.scanner.scan_async(self.path)"
worker_start ==
  /\ worker = "loop" /\ scans < app_scans
  /\ scan_start("scan_async", AppPath)

\* the scan of the worker is between two values and the worker has them all
InLoop == worker = "loop" /\ scans = app_scans /\ seen = Len(emitted)

\* the body of the worker's loop for one ScanProgress: the buffers, and when
\* it is time (always for the first value) the lists, the sort and the tables
worker_progress ==
  /\ worker = "loop" /\ scans = app_scans /\ seen < Len(emitted)
  /\ LET progress == emitted[seen + 1]
         fb == IF progress.files # <<>> THEN progress.files ELSE files_buffer
         db == IF progress.dirs # <<>> THEN progress.dirs ELSE dirs_buffer
     IN \E time_to_update \in BOOLEAN :
          /\ seen = 0 => time_to_update
          /\ seen' = seen + 1
          /\ IF time_to_update
               THEN /\ app_largest_files' = apply_sort(fb)
                    /\ app_largest_dirs' = apply_sort(db)
                    /\ files_buffer' = apply_sort(fb)
                    /\ dirs_buffer' = apply_sort(db)
                    /\ files_alias' = TRUE
                    /\ dirs_alias' = TRUE
                    /\ SetTables(update_tables(apply_sort(fb), apply_sort(db),
                                               hidden_dirs, St))
               ELSE /\ files_buffer' = fb
                    /\ dirs_buffer' = db
                    /\ files_alias' = (files_alias /\ progress.files = <<>>)
                    /\ dirs_alias' = (dirs_alias /\ progress.dirs = <<>>)
                    /\ UNCHANGED <<app_largest_files, app_largest_dirs, files_table,
                                   dirs_table, _last_table_items, _hidden_cache>>
  /\ last_action' = "worker"
  /\ UNCHANGED <<scanner_state, delete_errors, removed, worker, app_scans, hidden_dirs, current_focus,
                 dialog, user_steps>>

\* the finally block of the worker after the final ScanProgress (progress 1.0):
\* the lists are the buffers, sorted, the tables are updated, the worker returns
worker_finally ==
  /\ InLoop /\ mode = "idle" /\ outcome = "final"
  /\ app_largest_files' = apply_sort(files_buffer)
  /\ app_largest_dirs' = apply_sort(dirs_buffer)
  /\ files_buffer' = apply_sort(files_buffer)
  /\ dirs_buffer' = apply_sort(dirs_buffer)
  /\ files_alias' = TRUE
  /\ dirs_alias' = TRUE
  /\ SetTables(update_tables(apply_sort(files_buffer), apply_sort(dirs_buffer),
                             hidden_dirs, St))
  /\ worker' = "returned"
  /\ last_action' = "worker"
  /\ UNCHANGED <<scanner_state, delete_errors, removed, seen, app_scans, hidden_dirs, current_focus,
                 dialog, user_steps>>

\* the scan raised: the exception leaves the worker, the app reports
\* "Scan failed!"
worker_failed ==
  /\ InLoop /\ mode = "idle" /\ outcome \notin {"running", "final"}
  /\ worker' = "none"
  /\ last_action' = "worker"
  /\ UNCHANGED <<scanner_state, delete_errors, removed, app_largest_files, app_largest_dirs, files_buffer,
                 dirs_buffer, files_alias, dirs_alias, seen, app_scans, hidden_dirs,
                 _hidden_cache, files_table, dirs_table, _last_table_items,
                 current_focus, dialog, user_steps>>

\* on_worker_state_changed for WorkerState.SUCCESS: a non-empty list of the
\* result replaces the list of the app, then the sort and the tables
on_worker_state_changed ==
  /\ worker = "returned"
  /\ LET files == apply_sort(IF files_buffer # <<>> THEN files_buffer ELSE app_largest_files)
         dirs == apply_sort(IF dirs_buffer # <<>> THEN dirs_buffer ELSE app_largest_dirs)
     IN /\ app_largest_files' = files
        /\ app_largest_dirs' = dirs
        /\ SetTables(update_tables(files, dirs, hidden_dirs, St))
  /\ files_buffer' = <<>>
  /\ dirs_buffer' = <<>>
  /\ files_alias' = FALSE
  /\ dirs_alias' = FALSE
  /\ worker' = "none"
  /\ last_action' = "on_worker_state_changed"
  /\ UNCHANGED <<scanner_state, delete_errors, removed, seen, app_scans, hidden_dirs, current_focus,
                 dialog, user_steps>>

\* a key reaches the app: no dialog is open and the worker is not in the
\* middle of a value
KeyPressed ==
  /\ ~dialog.open
  /\ user_steps < MaxUserActions
  /\ worker = "loop" /\ scans = app_scans => seen = Len(emitted)

\* action_toggle_focus (action_focus_files/action_focus_dirs set the same field)
action_toggle_focus ==
  /\ ~dialog.open
  /\ worker = "loop" /\ scans = app_scans => seen = Len(emitted)
  /\ current_focus' = IF current_focus = "files" THEN "dirs" ELSE "files"
  /\ last_action' = "toggle_focus"
  /\ UNCHANGED <<scanner_state, delete_errors, removed, app_largest_files, app_largest_dirs, files_buffer,
                 dirs_buffer, files_alias, dirs_alias, seen, worker, app_scans,
                 hidden_dirs, _hidden_cache, files_table, dirs_table,
                 _last_table_items, dialog, user_steps>>

\* matching_items[0]: the first entry of the list whose str(path) is the key
Matching(list, key) ==
  SelectSeq(list, LAMBDA item : PathStr(item.path) = key)

\* _update_parent_sizes_on_hide that subtracts from every other entry
UpdateParentSizesAll(dirs, hidden_path, hidden_size) ==
  [i \in DOMAIN dirs |->
     IF hidden_path # dirs[i].path
       THEN FileInfo(dirs[i].path, Max(0, dirs[i].size - hidden_size), dirs[i].is_icloud)
       ELSE dirs[i]]

\* _update_parent_sizes_on_hide: a new list, each strict parent of the hidden
\* path reduced by its size, not below 0
_update_parent_sizes_on_hide(dirs, hidden_path, hidden_size) ==
  [i \in DOMAIN dirs |->
     IF hidden_path # dirs[i].path /\ IsRelativeTo(hidden_path, dirs[i].path)
       THEN FileInfo(dirs[i].path, Max(0, dirs[i].size - hidden_size), dirs[i].is_icloud)
       ELSE dirs[i]]

\* "self._hidden_cache.clear()" left out: the memo is kept
HiddenCacheKept(hcache) == hcache

\* self._hidden_cache.clear()
HiddenCacheCleared(hcache) == <<>>

\* action_hide_selected with the cursor on row of the directories table
action_hide_selected(row) ==
  /\ KeyPressed
  /\ current_focus = "dirs"
  /\ row \in DOMAIN dirs_table
  /\ Matching(app_largest_dirs, dirs_table[row].key) # <<>>
  /\ LET item == Matching(app_largest_dirs, dirs_table[row].key)[1]
         hidden == hidden_dirs \cup {item.path}
         dirs == _update_parent_sizes_on_hide(app_largest_dirs, item.path, item.size)
     IN /\ hidden_dirs' = hidden
        /\ app_largest_dirs' = dirs
        /\ dirs_alias' = FALSE
        /\ SetTables(update_tables(app_largest_files, dirs, hidden,
             TableState(files_table, dirs_table, [files |-> <<>>, dirs |-> <<>>],
                        HiddenCacheCleared(_hidden_cache))))
  /\ user_steps' = user_steps + 1
  /\ last_action' = "hide_selected"
  /\ UNCHANGED <<scanner_state, delete_errors, removed, app_largest_files, files_buffer, dirs_buffer,
                 files_alias, seen, worker, app_scans, current_focus, dialog>>

\* action_refresh: nothing is hidden any more, scan_directory
action_refresh ==
  /\ KeyPressed
  /\ worker = "none"
  /\ app_scans < MaxScans
  /\ hidden_dirs' = {}
  /\ _hidden_cache' = <<>>
  /\ scan_directory
  /\ user_steps' = user_steps + 1
  /\ last_action' = "refresh"
  /\ UNCHANGED <<scanner_state, delete_errors, removed, files_table, dirs_table, _last_table_items,
                 current_focus, dialog>>

\* action_show_hidden: with nothing hidden a notification and no more, else
\* nothing is hidden any more, scan_directory
action_show_hidden ==
  /\ KeyPressed
  /\ hidden_dirs # {} => worker = "none" /\ app_scans < MaxScans
  /\ user_steps' = user_steps + 1
  /\ last_action' = "show_hidden"
  /\ IF hidden_dirs = {}
       THEN UNCHANGED <<app_largest_files, app_largest_dirs, files_alias, dirs_alias,
                        files_buffer, dirs_buffer, seen, worker, app_scans,
                        hidden_dirs, _hidden_cache>>
       ELSE /\ hidden_dirs' = {}
            /\ _hidden_cache' = <<>>
            /\ scan_directory
  /\ UNCHANGED <<scanner_state, delete_errors, removed, files_table, dirs_table, _last_table_items,
                 current_focus, dialog>>

\* the table and the list that current_focus selects
FocusTable == IF current_focus = "files" THEN files_table ELSE dirs_table
FocusItems == IF current_focus = "files" THEN app_largest_files ELSE app_largest_dirs

\* action_delete_selected with the cursor on row: the ConfirmationDialog opens
action_delete_selected(row) ==
  /\ KeyPressed
  /\ row \in DOMAIN FocusTable
  /\ Matching(FocusItems, FocusTable[row].key) # <<>>
  /\ LET path == Matching(FocusItems, FocusTable[row].key)[1].path
     IN dialog' = [open |-> TRUE, path |-> path, is_dir |-> IsDir(path)]
  /\ user_steps' = user_steps + 1
  /\ last_action' = "delete_selected"
  /\ UNCHANGED <<scanner_state, delete_errors, removed, app_largest_files, app_largest_dirs, files_buffer,
                 dirs_buffer, files_alias, dirs_alias, seen, worker, app_scans,
                 hidden_dirs, _hidden_cache, files_table, dirs_table,
                 _last_table_items, current_focus>>

\* "items[:] = ..." that also takes the size of the deleted entry from its parents
WithoutAndSubtracted(list, path) ==
  LET gone == Matching(list, PathStr(path))
      rest == SelectSeq(list, LAMBDA item : item.path # path)
  IN IF gone = <<>> THEN rest
     ELSE _update_parent_sizes_on_hide(rest, path, gone[1].size)

\* items[:] = [item for item in items if item.path != path]
Without(list, path) == SelectSeq(list, LAMBDA item : item.path # path)

\* ConfirmationDialog that dismisses with True whatever button is pressed
DismissedTrue(button) == TRUE

\* ConfirmationDialog: "Delete" dismisses with True, "Cancel" with False
Dismissed(button) == button = "confirm-button"

\* the statements of the try block after the removal, run although it raised
ListEditedAnyway(confirmed, raises) == confirmed

\* the statements of the try block after shutil.rmtree/os.remove run when the
\* dialog was confirmed and the removal did not raise
ListEdited(confirmed, raises) == confirmed /\ ~raises

\* handle_confirmation of the delete dialog: on True shutil.rmtree/os.remove,
\* which may raise; after it the entry leaves the list in focus, in place, and
\* its row leaves the table in focus; an exception is notified for the path.
\* The dialog is confirmed when no scan is running, or for a file while the
\* worker of the running scan waits for its next value.
handle_confirmation(button, raises) ==
  /\ dialog.open
  /\ dialog' = [open |-> FALSE, path |-> <<>>, is_dir |-> FALSE]
  /\ last_action' = IF button = "cancel-button" THEN "cancelled"
                    ELSE IF raises THEN "delete_failed" ELSE "deleted"
  /\ button = "confirm-button" =>
       \/ worker \in {"none", "returned"}
       \/ worker = "loop" /\ scans = app_scans /\ seen = Len(emitted) /\ ~dialog.is_dir
  /\ button = "confirm-button" /\ dialog.path \in removed => raises
  /\ LET confirmed == Dismissed(button)
         path == dialog.path
     IN /\ removed' = IF confirmed /\ ~raises
                        THEN removed \cup {p \in AllPaths : IsRelativeTo(p, path)}
                        ELSE removed
        /\ delete_errors' = IF confirmed /\ raises THEN delete_errors \cup {path}
                              ELSE delete_errors
        /\ IF ListEdited(confirmed, raises)
             THEN IF current_focus = "files"
                    THEN /\ app_largest_files' = Without(app_largest_files, path)
                         /\ files_buffer' = IF files_alias THEN Without(files_buffer, path)
                                            ELSE files_buffer
                         /\ files_table' = SelectSeq(files_table,
                                                     LAMBDA r : r.key # PathStr(path))
                         /\ UNCHANGED <<app_largest_dirs, dirs_buffer, dirs_table>>
                    ELSE /\ app_largest_dirs' = Without(app_largest_dirs, path)
                         /\ dirs_buffer' = IF dirs_alias THEN Without(dirs_buffer, path)
                                           ELSE dirs_buffer
                         /\ dirs_table' = SelectSeq(dirs_table,
                                                    LAMBDA r : r.key # PathStr(path))
                         /\ UNCHANGED <<app_largest_files, files_buffer, files_table>>
             ELSE UNCHANGED <<app_largest_files, app_largest_dirs, files_buffer,
                              dirs_buffer, files_table, dirs_table>>
  /\ UNCHANGED <<scanner_state, files_alias, dirs_alias, seen, worker, app_scans,
                 hidden_dirs, _hidden_cache, _last_table_items, current_focus,
                 user_steps>>

\* trees of readable files and directories, and a tree in which the scan reads
\* one empty file, fewer than a chunk: f1 cannot be read and e is a link
AppTrees ==
  {t \in Trees :
     /\ \A p \in DirEntries : t[p] = PlainDir
     /\ \A p \in FileEntries : t[p].stat_err = "none"
     /\ t[F1].size = 1 /\ t[G1].size = 1}
  \cup
  {t \in Trees :
     /\ t[D1] = PlainDir
     /\ t[E] = Node(TRUE, TRUE, 0, "none", "none", "none")
     /\ t[F1] = Node(FALSE, FALSE, 0, "none", "PermissionError", "none")
     /\ t[G1] = Node(FALSE, FALSE, 0, "none", "none", "none")}

\* run_textual_ui: the app is mounted on a new scanner, on_mount has called
\* scan_directory
InitApp ==
  /\ fs \in AppTrees
  /\ options = [max_files |-> AppMaxItems, max_dirs |-> AppMaxItems,
                skip_dirs |-> DefaultSkipDirs, icloud_base |-> {}]
  /\ max_items = 1
  /\ _access_issues = <<>> /\ _dir_sizes = <<>> /\ _total_size = 0
  /\ _file_count = 0 /\ _update_counter = 0
  /\ _cache = <<>>
  /\ now = 1000
  /\ mode = "idle" /\ root_path = Root /\ pos = 0
  /\ largest_files = <<>> /\ largest_dirs = <<>> /\ paths_chunk = 0
  /\ last_dir_calc_time = 0 /\ emitted = <<>> /\ outcome = "none"
  /\ completed = <<>> /\ scans = 0 /\ signal = "none"
  /\ items = <<>> /\ inserted = <<>>
  /\ ret = Called("none", <<>>, <<>>, Absent, <<>>, 0)
  /\ last_set = [p \in CachePaths |-> NeverSet]
  /\ lock = 0
  /\ threads = [t \in Threads |-> IdleThread(0)]
  /\ removed = {}
  /\ app_largest_files = <<>> /\ app_largest_dirs = <<>>
  /\ files_buffer = <<>> /\ dirs_buffer = <<>>
  /\ files_alias = FALSE /\ dirs_alias = FALSE
  /\ seen = 0 /\ worker = "loop" /\ app_scans = 1
  /\ hidden_dirs = {} /\ _hidden_cache = <<>>
  /\ files_table = <<>> /\ dirs_table = <<>>
  /\ _last_table_items = [files |-> <<>>, dirs |-> <<>>]
  /\ current_focus = "files"
  /\ dialog = [open |-> FALSE, path |-> <<>>, is_dir |-> FALSE]
  /\ user_steps = 0
  /\ last_action = "mount"
  /\ saved = [called |-> FALSE]
  /\ shown = [rendered |-> FALSE]
  /\ stale = [alive |-> FALSE]
  /\ ring = [built |-> FALSE]
  /\ delete_errors = {}

NextApp ==
  \/ worker_start
  \/ InLoop /\ scan_async_file
  \/ InLoop /\ scan_dir
  \/ InLoop /\ walk_error
  \/ InLoop /\ scan_async_final
  \/ worker_progress
  \/ worker_finally
  \/ worker_failed
  \/ on_worker_state_changed
  \/ action_toggle_focus
  \/ \E row \in 1..MaxDirs : action_hide_selected(row)
  \/ action_refresh
  \/ action_show_hidden
  \/ \E row \in 1..MaxDirs : action_delete_selected(row)
  \/ \E button \in {"cancel-button", "confirm-button"}, raises \in BOOLEAN :
       handle_confirmation(button, raises)

\* the app from its mounting on: scans, and the keys of the user
SpecApp == InitApp /\ [][NextApp]_vars


(***************************************************************************)
(* C17 - hiding a directory takes its size from its parents.               *)
(***************************************************************************)
\* the size the last scan computed for the directory
ScannedSize(path) == DirGet(_dir_sizes, path).size

\* the hidden directories below path that lie under no other hidden directory
\* below path
HiddenBelow(path) ==
  {h \in hidden_dirs :
     /\ InParents(path, h)
     /\ ~\E g \in hidden_dirs : InParents(path, g) /\ InParents(g, h)}

RECURSIVE SumScanned(_)
SumScanned(S) ==
  IF S = {} THEN 0
  ELSE LET h == CHOOSE x \in S : TRUE IN ScannedSize(h) + SumScanned(S \ {h})

RowPath(r) == CHOOSE p \in AllPaths : PathStr(p) = r.key

\* path is a hidden directory or lies under one
UnderHidden(path) == \E h \in hidden_dirs : IsRelativeTo(path, h)

FinalDirs == completed[Len(completed)].directories

OthersKept(list, after, path) ==
  /\ \A i \in DOMAIN after : after[i].path # path
  /\ \A i \in DOMAIN list : list[i].path # path =>
       \E j \in DOMAIN after : after[j] = list[i]
  /\ Len(after) = Cardinality({i \in DOMAIN list : list[i].path # path})

Lost(list, after) ==
  {list[i] : i \in DOMAIN list} \ {after[j] : j \in DOMAIN after}

SymlinkDir == Node(TRUE, TRUE, 0, "none", "none", "none")

SkipTrees ==
  {t \in Trees :
     /\ \A p \in DirEntries : t[p] \in {PlainDir, SymlinkDir}
     /\ \A p \in FileEntries : t[p].stat_err = "none" /\ t[p].size > 0}

SkipLists == {DefaultSkipDirs, {"e"}, {"d"}, {"d1"}}

InitSkip ==
  /\ fs \in SkipTrees
  /\ options \in [max_files : {MaxFiles + 1}, max_dirs : {MaxDirs},
                   skip_dirs : SkipLists, icloud_base : {{}}]
  /\ max_items = 1
  /\ Constructed

NextSkip ==
  \/ \E m \in {"scan", "scan_async"} : scan_start(m, Root)
  \/ scan_file
  \/ scan_async_file
  \/ scan_dir
  \/ scan_return
  \/ scan_async_final

SpecSkip == InitSkip /\ [][NextSkip]_vars

(***************************************************************************)
(* C23 - symlinked directories and the skip list.                          *)
(***************************************************************************)
\* path lies under a symlinked directory or under a directory whose name is
\* an entry of the skip list
Excluded(path) ==
  \E d \in DirEntries :
    /\ InParents(d, path)
    /\ fs[d].is_symlink \/ Name(d) \in options.skip_dirs

\* the files of the tree that are not excluded, and those of them under D
Included == {f \in FileEntries : ~Excluded(f)}
IncludedSize(D) == SumSizes({f \in Included : InParents(D, f)})

\* C23: no file from under a symlinked directory or under a directory named
\* by the skip list is in the files, in a progress value, or in a directory
\* size; and when the scan returns, every other file has been counted:
\* files_scanned and total_bytes are those of the files not excluded, and
\* each directory size is the sum of the files not excluded under it, so a
\* directory whose name only contains a skip-list entry is scanned.
C23_SkipExact ==
  /\ \A i \in DOMAIN largest_files : ~Excluded(largest_files[i].path)
  /\ \A k \in DOMAIN emitted : \A i \in DOMAIN emitted[k].files :
       ~Excluded(emitted[k].files[i].path)
  /\ \A i \in DOMAIN _dir_sizes : _dir_sizes[i].size <= IncludedSize(_dir_sizes[i].path)
  /\ _file_count <= Cardinality(Included)
  /\ outcome \in Returns =>
       /\ _file_count = Cardinality(Included)
       /\ _total_size = SumSizes(Included)
       /\ \A i \in DOMAIN _dir_sizes :
            _dir_sizes[i].size = IncludedSize(_dir_sizes[i].path)
       /\ \A f \in Included : HasKey(_dir_sizes, Parents(f)[1])

\* a scan has returned under the skip list {"d"}: d1, whose name contains
\* "d", was scanned, and the link e under it was not entered
C23_Witness ==
  /\ outcome \in Returns
  /\ options.skip_dirs = {"d"}
  /\ fs[D1] = PlainDir /\ fs[E] = SymlinkDir
  /\ HasKey(_dir_sizes, D1)
  /\ ~HasKey(_dir_sizes, E)
  /\ _file_count = 2


(***************************************************************************)
(* C24 - a list of no files, and files of no bytes.                        *)
(***************************************************************************)
\* C24: with max_files = 0 every call on a directory returns, with an empty
\* files list; and in every returned files list the files are in descending
\* order of size, so that files of size 0 come after every larger file, and
\* every read file, of size 0 or not, is counted in files_scanned.
C24_ZeroK ==
  /\ options.max_files = 0 /\ outcome \notin {"none", "running", "InvalidPathError"} =>
       /\ outcome \in Returns
       /\ completed[Len(completed)].files = <<>>
  /\ \A k \in DOMAIN completed :
       /\ SortedDesc(completed[k].files)
       /\ root_path = Root /\ k = Len(completed) /\ outcome \in Returns =>
            completed[k].files_scanned = Cardinality(ReadFiles)


(***************************************************************************)
(* save_results on its own: the lists it is given, the JSON text it        *)
(* writes, and what json.load makes of that text.                          *)
(***************************************************************************)
\* the longest list handed to save_results
MaxExport == 2
ExportPaths == {D1, F1}
ExportSizes == {0, 7, 1024}
ExportItems ==
  {FileInfo(p, size, c) : p \in ExportPaths, size \in ExportSizes, c \in BOOLEAN}
ExportLists(n) == UNION {[1..k -> ExportItems] : k \in 0..n}

DigitChars == <<"0", "1", "2", "3", "4", "5", "6", "7", "8", "9">>

RECURSIVE EncodeInt(_)
\* json.dump of an int: its decimal digits
EncodeInt(n) ==
  IF n < 10 THEN <<DigitChars[n + 1]>>
  ELSE EncodeInt(n \div 10) \o <<DigitChars[(n % 10) + 1]>>

DigitValue(ch) == (CHOOSE i \in DOMAIN DigitChars : DigitChars[i] = ch) - 1

RECURSIVE DecodeInt(_)
\* json.load of a number written without fraction or exponent: an int
DecodeInt(digits) ==
  IF digits = <<>> THEN 0
  ELSE 10 * DecodeInt(SubSeq(digits, 1, Len(digits) - 1)) + DigitValue(digits[Len(digits)])

\* "icloud" if f.is_icloud else "local", with the two values the same
StorageTypeLocal(is_icloud) == "local"

\* "icloud" if f.is_icloud else "local"
StorageType(is_icloud) == IF is_icloud THEN "icloud" ELSE "local"

\* one element of "largest_files" or "largest_directories", as json.dump writes
\* it; "size_human" is derived from the same size and is left out
ExportRecord(f) ==
  [path |-> PathStr(f.path), size_bytes |-> EncodeInt(f.size),
   storage_type |-> StorageType(f.is_icloud)]

\* the text of the results, list by list in the order of the comprehension
ExportText(files, dirs) ==
  [largest_files |-> [i \in DOMAIN files |-> ExportRecord(files[i])],
   largest_directories |-> [i \in DOMAIN dirs |-> ExportRecord(dirs[i])]]

NoText == [largest_files |-> <<>>, largest_directories |-> <<>>]

\* json.load of one element
LoadRecord(r) ==
  [path |-> r.path, size_bytes |-> DecodeInt(r.size_bytes),
   storage_type |-> r.storage_type]

\* json.load of the text
LoadText(text) ==
  [largest_files |-> [i \in DOMAIN text.largest_files |-> LoadRecord(text.largest_files[i])],
   largest_directories |->
     [i \in DOMAIN text.largest_directories |-> LoadRecord(text.largest_directories[i])]]

\* save_results(output_path, files, dirs, scanned_path), called once; raises
\* says that open or json.dump raised, which the except clause reports and
\* swallows
save_results(files, dirs, raises) ==
  /\ ~saved.called
  /\ saved' = [called |-> TRUE, files |-> files, dirs |-> dirs, written |-> ~raises,
               text |-> IF raises THEN NoText ELSE ExportText(files, dirs),
               loaded |-> FALSE, data |-> NoText]
  /\ UNCHANGED <<fs, options, now, scanner_vars, run_vars, items, max_items, inserted,
                 cache_harness_vars, app_vars, shown, stale, ring>>

\* json.load of the file a save_results call wrote
load_results ==
  /\ saved.called /\ saved.written /\ ~saved.loaded
  /\ saved' = [saved EXCEPT !.loaded = TRUE, !.data = LoadText(saved.text)]
  /\ UNCHANGED <<fs, options, now, scanner_vars, run_vars, items, max_items, inserted,
                 cache_harness_vars, app_vars, shown, stale, ring>>

InitExport ==
  /\ fs \in {t \in SkipTrees : /\ \A p \in DirEntries : t[p] = PlainDir
                              /\ \A p \in FileEntries : t[p].size = 1}
  /\ options = [max_files |-> MaxFiles, max_dirs |-> MaxDirs,
                skip_dirs |-> DefaultSkipDirs, icloud_base |-> {}]
  /\ max_items = 1
  /\ Constructed

NextExport ==
  \/ \E files \in ExportLists(MaxExport), dirs \in ExportLists(1), raises \in BOOLEAN :
       save_results(files, dirs, raises)
  \/ load_results

SpecExport == InitExport /\ [][NextExport]_vars

(***************************************************************************)
(* C25 - export and reparse.                                               *)
(***************************************************************************)
\* the storage class a storage_type value of the export stands for
StorageClass(storage_type) == storage_type = "icloud"

\* the records of one list answer the items of the list one by one, in order,
\* with the same size and the storage type of the same class
RoundTrip(recs, l) ==
  /\ Len(recs) = Len(l)
  /\ \A i \in DOMAIN l :
       /\ recs[i].path = PathStr(l[i].path)
       /\ recs[i].size_bytes = l[i].size
       /\ recs[i].storage_type \in {"local", "icloud"}
       /\ StorageClass(recs[i].storage_type) = l[i].is_icloud

AtOrBelowRoot(path) == path = root_path \/ InParents(root_path, path)

\* every directory from an aggregated file's parent up to the scan root has
\* an entry in _dir_sizes
ChainCovered ==
  \A f \in Aggregated : \A i \in DOMAIN Parents(f) :
    AtOrBelowRoot(Parents(f)[i]) => HasKey(_dir_sizes, Parents(f)[i])

\* C26: while a scan runs and once it has returned, _dir_sizes has an entry
\* for every directory between an aggregated file and the scan root, the root
\* included, and has no entry for a directory above the scan root.
C26_ChainToRoot ==
  Running \/ outcome \in Returns =>
    /\ ChainCovered
    /\ \A i \in DOMAIN _dir_sizes : AtOrBelowRoot(_dir_sizes[i].path)


(***************************************************************************)
(* C27 - what the list of largest directories holds.                       *)
(***************************************************************************)
\* path is an ancestor of the scan root, at most two levels above it
NearAncestor(path) == InParents(path, Root) /\ Len(Root) - Len(path) <= 2

\* a list of directories of a scan of Root as the claim describes it
RootedAndSorted(dirs) ==
  /\ \A i \in DOMAIN dirs :
       dirs[i].path = Root \/ InParents(Root, dirs[i].path) \/ NearAncestor(dirs[i].path)
  /\ SortedDesc(dirs)

\* C27: the directories of every progress yielded by scan_async and of every
\* result returned by scan or scan_async are the scan root, directories below
\* it and ancestors of it at most two levels up, in descending order of size.
C27_DirsList ==
  /\ \A k \in DOMAIN emitted : RootedAndSorted(emitted[k].dirs)
  /\ \A k \in DOMAIN completed : RootedAndSorted(completed[k].directories)


(***************************************************************************)
(* The directories table on its own: an app built on any path, given the   *)
(* list a scan of that path produces.                                      *)
(***************************************************************************)
\* the largest size of a scanned directory
MaxShownSize == 3
\* the paths an app is started on: "/", "/u", "/u/h" and "/u/h/r"
ShownRoots == {SubSeq(Root, 1, n) : n \in 0..Len(Root)}

\* _dir_sizes after a scan of path that read size bytes, below of them under
\* path/d1 and deeper of those under path/d1/e: every parent of a file has
\* the bytes under it, the parents of path with them
ScannedDirs(path, size, below, deeper) ==
  (IF deeper >= 0 THEN <<FileInfo(path \o <<"d1", "e">>, deeper, FALSE)>> ELSE <<>>)
  \o (IF below >= 0 THEN <<FileInfo(path \o <<"d1">>, below, FALSE)>> ELSE <<>>)
  \o <<FileInfo(path, size, FALSE)>>
  \o [i \in 1..Len(path) |-> FileInfo(Parents(path)[i], size, FALSE)]

\* the lists of largest directories of a scan of path; -1 stands for a
\* directory that holds no file, and a directory holds what lies below it
ShownLists(path) ==
  {StableSortDesc(ScannedDirs(path, t[1], t[2], t[3])) :
     t \in {t \in (0..MaxShownSize) \X (-1..MaxShownSize) \X (-1..MaxShownSize) :
              t[2] <= t[1] /\ t[3] <= t[2]}}

\* the rows of #dirs-table for self.path = path and self.largest_dirs = dirs:
\* the filter of _update_table_if_changed, then the tests of _add_row_to_table
RenderDirsAt(path, dirs) ==
  LET scan_dir_size == ScanDirSizeAt(path, dirs)
      filtered_items == SelectSeq(dirs, LAMBDA item :
                          /\ ~SkippedDirAt(path, item, scan_dir_size)
                          /\ ~DistantParentAt(path, item))
      added == SelectSeq(filtered_items, LAMBDA item :
                 /\ ~SkippedDirAt(path, item, ScanDirSizeAt(path, dirs))
                 /\ ~DistantParentAt(path, item))
  IN [i \in DOMAIN added |-> Row(added[i])]

\* an app on path renders the directories of its finished scan, once
show_dirs(path, dirs) ==
  /\ ~shown.rendered
  /\ shown' = [rendered |-> TRUE, path |-> path, dirs |-> dirs,
               rows |-> RenderDirsAt(path, dirs)]
  /\ UNCHANGED <<fs, options, now, scanner_vars, run_vars, items, max_items, inserted,
                 cache_harness_vars, app_vars, saved, stale, ring>>

InitFilter == InitExport

NextFilter == \E path \in ShownRoots : \E dirs \in ShownLists(path) : show_dirs(path, dirs)

SpecFilter == InitFilter /\ [][NextFilter]_vars

(***************************************************************************)
(* C28 - which directories the table leaves out.                           *)
(***************************************************************************)
\* the entry has no row in the rendered table
Suppressed(item) == \A i \in DOMAIN shown.rows : shown.rows[i].key # PathStr(item.path)

\* the entry is a strict ancestor of the app's path that lies more than two
\* levels above it or whose size is within 1% of the size of the path itself
RedundantAncestor(item) ==
  /\ InParents(item.path, shown.path)
  /\ \/ Len(shown.path) - Len(item.path) > 2
     \/ WithinOnePercent(item.size, ScanDirSizeAt(shown.path, shown.dirs))

\* C28: an entry of the list is left out of the directories table exactly
\* when it is a strict ancestor of the scanned path more than two levels up
\* or of a size within 1% of the scanned path's; the scanned path itself and
\* what lies below it always get a row, on whatever path the app was started.
C28_FilterExact ==
  shown.rendered =>
    \A i \in DOMAIN shown.dirs : Suppressed(shown.dirs[i]) <=> RedundantAncestor(shown.dirs[i])


(***************************************************************************)
(* C29 - hiding a directory while the scan worker is alive.                *)
(***************************************************************************)
\* the directories of the last ScanProgress with any that the worker has taken
LatestDirs ==
  LET ks == {k \in 1..Min(seen, Len(emitted)) : emitted[k].dirs # <<>>}
  IN IF ks = {} THEN <<>> ELSE emitted[CHOOSE k \in ks : \A j \in ks : j <= k].dirs

AggregatedUpTo(n) ==
  LET walk == Walk(mode)
  IN {walk[j].path : j \in {i \in 1..n : walk[i].ev = "file"}}

\* the directories that hold a file of S, at any depth
DirsOver(S) == {d \in AllPaths : \E f \in S : InParents(d, f)}

\* progress tells of the files of S and of nothing else: their number, their
\* bytes, the largest of them in descending order without repeats, and the
\* directories over them with their bytes
SnapshotOf(progress, S) ==
  LET listed == {progress.files[i].path : i \in DOMAIN progress.files}
      least == IF progress.files = <<>> THEN 0
               ELSE progress.files[Len(progress.files)].size
      over == DirsOver(S)
  IN /\ progress.scanned = Cardinality(S)
     /\ progress.total_size = SumSizes(S)
     /\ Len(progress.files) = Min(options.max_files, Cardinality(S))
     /\ Cardinality(listed) = Len(progress.files)
     /\ listed \subseteq S
     /\ SortedDesc(progress.files)
     /\ \A i \in DOMAIN progress.files :
          progress.files[i].size = fs[progress.files[i].path].size
     /\ \A f \in S \ listed : fs[f].size <= least
     /\ Len(progress.dirs) = Min(options.max_dirs, Cardinality(over))
     /\ \A i \in DOMAIN progress.dirs :
          /\ progress.dirs[i].path \in over
          /\ progress.dirs[i].size = SumSizes({f \in S : InParents(progress.dirs[i].path, f)})

\* C30: every ScanProgress of scan_async holds at most max_files files and
\* max_dirs directories; when it is yielded, its counts, its files and its
\* directories are those of the files aggregated up to then; and no later
\* step of the scan changes a ScanProgress already yielded.
C30_Snapshot ==
  /\ [](\A k \in DOMAIN emitted :
          /\ Len(emitted[k].files) <= options.max_files
          /\ Len(emitted[k].dirs) <= options.max_dirs)
  /\ [][/\ Len(emitted') = Len(emitted) + 1 =>
            SnapshotOf(emitted'[Len(emitted')], AggregatedUpTo(pos'))
        /\ scans' = scans =>
            \A k \in DOMAIN emitted : k \in DOMAIN emitted' /\ emitted'[k] = emitted[k]]_vars

\* a progress yielded after two files, and the final one after a third file
\* that is larger than both: the first still shows the two
C30_Witness ==
  /\ Len(emitted) = 2 /\ outcome = "final"
  /\ emitted[1].scanned = 2 /\ emitted[2].scanned = 3
  /\ options.max_files = 2
  /\ emitted[1].total_size < emitted[2].total_size
  /\ emitted[1].files # emitted[2].files
  /\ emitted[1].dirs # emitted[2].dirs


(***************************************************************************)
(* C31 - where scan_async gives the event loop a turn.                     *)
(***************************************************************************)
\* the 500 of "processed_count == 500" and "processed_count % 500 == 0" in
\* _walk_directory_async, scaled to the small tree
WalkerBatch == 3

\* processed_count of the async walker once it has yielded item i of walk
ProcessedCount(walk, i) == Cardinality({j \in 1..i : walk[j].ev = "file"})

\* the async walker reaches "await asyncio.sleep(0)" right after item i: after
\* a file when processed_count is a multiple of the batch, after a directory
\* once is_small_directory is off
WalkerAwaits(walk, i) ==
  LET processed_count == ProcessedCount(walk, i)
      is_small_directory == processed_count < WalkerBatch
  IN \/ walk[i].ev = "file" /\ ~is_small_directory /\ processed_count % WalkerBatch = 0
     \/ walk[i].ev = "dir" /\ ~is_small_directory

\* scan_async reaches its "await asyncio.sleep(0)" after item i: it yielded a
\* ScanProgress for the file that made _file_count what that progress says
YieldAwaits(walk, i) ==
  /\ walk[i].ev = "file"
  /\ \E k \in DOMAIN emitted :
       emitted[k].progress # <<1, 1>> /\ emitted[k].scanned = ProcessedCount(walk, i)

\* the items consumed since the running scan_async last awaited
SinceAwait ==
  LET walk == Walk(mode)
      awaited == {i \in 1..pos : WalkerAwaits(walk, i) \/ YieldAwaits(walk, i)}
  IN IF awaited = {} THEN pos
     ELSE pos - (CHOOSE i \in awaited : \A j \in awaited : j <= i)

\* C31: a running scan_async never consumes more entries than one batch of
\* the walker without awaiting in between, whatever the tree holds.
C31_BoundedWork ==
  mode = "scan_async" => SinceAwait <= WalkerBatch


(***************************************************************************)
(* scan_async over the flat directory, the clock standing still or not.    *)
(***************************************************************************)
InitBurst ==
  /\ fs \in {t \in SkipTrees : /\ \A p \in DirEntries : t[p] = PlainDir
                              /\ \A p \in FileEntries : t[p].size = 1}
  /\ options \in OptionSet
  /\ max_items = 1
  /\ Constructed

NextBurst ==
  \/ scan_start("scan_async", FlatRoot)
  \/ scan_async_file
  \/ scan_dir
  \/ scan_async_final

SpecBurst == InitBurst /\ [][NextBurst]_vars

(***************************************************************************)
(* C32 - no stall on a burst of files.                                     *)
(***************************************************************************)
\* the 5000 files after which an emission is to be forced, scaled to the
\* flat directory
BurstThreshold == 1

\* _file_count when the running scan last yielded a ScanProgress
LastEmitted == IF emitted = <<>> THEN 0 ELSE emitted[Len(emitted)].scanned

\* C32: while scan_async runs, the files processed since its last
\* ScanProgress never number more than the burst threshold plus one chunk,
\* whatever the clock reads.
C32_NoStall ==
  mode = "scan_async" => _file_count - LastEmitted <= BurstThreshold + ChunkSize


(***************************************************************************)
(* C33 - what the two walkers yield.                                       *)
(***************************************************************************)
\* the paths a walk yields as files
FilesOf(walk) == {walk[i].path : i \in {j \in DOMAIN walk : walk[j].ev = "file"}}

\* the walk yields every readable file once, with its size, and every
\* directory with size 0
YieldsEachOnce(walk) ==
  /\ \A f \in ReadFiles :
       \E i \in DOMAIN walk :
         /\ walk[i] = Item("file", f, fs[f].size, "none")
         /\ \A j \in DOMAIN walk : walk[j].ev = "file" /\ walk[j].path = f => j = i
  /\ \A i \in DOMAIN walk : walk[i].ev = "dir" => walk[i].size = 0

\* C33: on every tree each of the two walkers of the root ends, having
\* yielded every file that is no symlink, lies under no skipped directory and
\* whose stat succeeds exactly once with its size, and every directory with
\* size 0; and the files of the two walks are the same.
C33_Walkers ==
  LET sync == _walk_directory(Root)
      async == _walk_directory_async(Root)
  IN /\ YieldsEachOnce(sync)
     /\ YieldsEachOnce(async)
     /\ FilesOf(sync) = FilesOf(async)

\* a scan has consumed a whole walk of a tree with a link, a file whose stat
\* fails and two readable files, one of them below d1
C33_Witness ==
  /\ mode = "scan_async" /\ root_path = Root /\ pos = Len(Walk(mode))
  /\ fs[E].is_symlink /\ fs[F1].stat_err # "none"
  /\ FilesOf(_walk_directory(Root)) = {G1}
  /\ FilesOf(_walk_directory_async(Root)) = {G1}
  /\ fs[G1].size = MaxSize


(***************************************************************************)
(* A rescan requested while a scan is running.  scan_directory starts a    *)
(* new "Directory Scanner" worker and leaves the running one alone; both   *)
(* iterate scan_async of the one DiskScanner of the app.  A coroutine      *)
(* gives way at its awaits only: the latest scan is the one the scanner    *)
(* state describes, the older one is kept in stale.                        *)
(***************************************************************************)
\* the running scan_async has just yielded a ScanProgress and waits in
\* "await asyncio.sleep(0)"
Suspended ==
  /\ mode = "scan_async" /\ pos >= 1 /\ emitted # <<>> /\ paths_chunk = 0
  /\ Walk(mode)[pos].ev = "file"
  /\ LET last == emitted[Len(emitted)]
     IN last.progress # <<1, 1>> /\ last.scanned = _file_count
        /\ last.total_size = _total_size

\* action_refresh or action_show_hidden while the worker is in its loop:
\* scan_directory runs a second worker, whose scan_async resets the
\* aggregates of the scanner and runs on to its first await
rescan ==
  /\ Suspended
  /\ ~stale.alive
  /\ scans < MaxScans
  /\ stale' = [alive |-> TRUE, pos |-> pos, chunk |-> paths_chunk]
  /\ scans' = scans + 1
  /\ outcome' = "running"
  /\ _access_issues' = <<>>
  /\ _dir_sizes' = <<>>
  /\ _total_size' = 0
  /\ _file_count' = 0
  /\ pos' = 0
  /\ largest_files' = <<>>
  /\ largest_dirs' = <<>>
  /\ paths_chunk' = 0
  /\ last_dir_calc_time' = 0
  /\ emitted' = <<>>
  /\ UNCHANGED <<fs, options, now, items, max_items, inserted, cache_harness_vars,
                 app_vars, saved, shown, ring, mode, root_path, completed, signal,
                 _update_counter, _cache>>

\* the attributes of the scanner that _update_dir_sizes and the loop body write
Aggregates ==
  [dir_sizes |-> _dir_sizes, update_counter |-> _update_counter, cache |-> _cache,
   total_size |-> _total_size, file_count |-> _file_count]

\* the loop body of scan_async for one yielded item, on the given aggregates
ConsumeOn(agg, item) ==
  IF item.ev # "file" THEN agg
  ELSE LET parents == Parents(item.path)
           d == AddToParents(agg.dir_sizes, parents, item.size, IsICloud(item.path))
           c == agg.update_counter + 1
       IN [dir_sizes |-> d,
           update_counter |-> c,
           cache |-> IF c % CacheUpdateFrequency = 0
                       THEN CacheParents(agg.cache, d, parents) ELSE agg.cache,
           total_size |-> agg.total_size + item.size,
           file_count |-> agg.file_count + 1]

RECURSIVE ConsumeRange(_, _, _, _)
\* the loop body for the items i..j of walk, in order
ConsumeRange(agg, walk, i, j) ==
  IF i > j THEN agg ELSE ConsumeRange(ConsumeOn(agg, walk[i]), walk, i + 1, j)

\* the items at which the older scan can next await: a file that fills its
\* chunk (where it yields if the clock has moved on), or the end of its walk
StaleStops(walk) ==
  {q \in (stale.pos + 1)..Len(walk) :
     \/ q = Len(walk)
     \/ /\ walk[q].ev = "file"
        /\ (stale.chunk + ProcessedCount(walk, q) - ProcessedCount(walk, stale.pos))
             % ChunkSize = 0}

\* the older worker gets its turn while the latest scan awaits or once it has
\* ended: its scan_async consumes files into the same aggregates up to its
\* next await, or to its final ScanProgress
stale_resume ==
  /\ stale.alive
  /\ Suspended \/ mode = "idle"
  /\ LET walk == Walk("scan_async") IN
     \E q \in StaleStops(walk) \cup {Len(walk)} :
       LET agg == ConsumeRange(Aggregates, walk, stale.pos + 1, q)
       IN /\ _dir_sizes' = agg.dir_sizes
          /\ _update_counter' = agg.update_counter
          /\ _cache' = agg.cache
          /\ _total_size' = agg.total_size
          /\ _file_count' = agg.file_count
          /\ stale' = IF q = Len(walk) THEN [alive |-> FALSE]
                      ELSE [alive |-> TRUE, pos |-> q, chunk |-> 0]
  /\ UNCHANGED <<fs, options, now, items, max_items, inserted, cache_harness_vars,
                 app_vars, saved, shown, ring, run_vars, _access_issues>>

InitRescan ==
  /\ fs \in {t \in SkipTrees : /\ \A p \in DirEntries : t[p] = PlainDir
                               /\ \A p \in FileEntries : t[p].size >= 1}
  /\ options \in {o \in OptionSet : o.max_files >= 1}
  /\ max_items = 1
  /\ Constructed

NextRescan ==
  \/ scan_start("scan_async", Root)
  \/ scan_async_file
  \/ scan_dir
  \/ scan_async_final
  \/ rescan
  \/ stale_resume

SpecRescan == InitRescan /\ [][NextRescan]_vars

(***************************************************************************)
(* C34 - a rescan requested in the middle of a scan.                       *)
(***************************************************************************)
\* the terminal snapshot reports what one scan of the tree finds
OneScanTotals(snapshot) ==
  /\ snapshot.total_size = SumSizes(ReadFiles)
  /\ snapshot.files_scanned = Cardinality(ReadFiles)
  /\ \A i \in DOMAIN snapshot.directories :
       snapshot.directories[i].size = TrueSize(snapshot.directories[i].path)

\* C34: when a scan that was started while another one was still running
\* ends, its terminal snapshot reports the total_size, the files_scanned and
\* the directory sizes of one uninterrupted scan of the tree, however the
\* steps of the two scans were interleaved.
C34_RescanClean ==
  (outcome = "final" /\ scans >= 2) => OneScanTotals(completed[Len(completed)])

(***************************************************************************)
(* C35 - the size cache after a hide and after a delete.                   *)
(***************************************************************************)
\* DirectorySizeCache.get(D) of the scanner of the app returns None
NotCached(cache, D, t) == ~CacheGet(cache, D, t).value.present

Deleted == {p \in removed : \A q \in removed : ~InParents(q, p)}

\* path is an entry of neither list and a row of neither table
Gone(path) ==
  /\ \A i \in DOMAIN app_largest_files : app_largest_files[i].path # path
  /\ \A i \in DOMAIN app_largest_dirs : app_largest_dirs[i].path # path
  /\ \A i \in DOMAIN files_table : files_table[i].key # PathStr(path)
  /\ \A i \in DOMAIN dirs_table : dirs_table[i].key # PathStr(path)

NothingUnder(list, D) == \A i \in DOMAIN list : ~IsRelativeTo(list[i].path, D)

Listed(cache, path) ==
  \E i \in DOMAIN CacheGetAllCachedDirs(cache) : CacheGetAllCachedDirs(cache)[i] = path

\* C38: at every instant get_all_cached_dirs() returns a path exactly when
\* get(path) returns a value.
C38_ReadsAgree ==
  \A path \in CachePaths :
    Listed(_cache, path) <=> CacheGet(_cache, path, now).value.present

(***************************************************************************)
(* MetricsBuffer and its RingBuffer, driven one call at a time.            *)
(***************************************************************************)
\* the capacities asked of MetricsBuffer(capacity)
MaxCapacity == 3
\* the pushes a full buffer is made to reject between two clear()
MaxRejected == 2
\* the snapshots pushed
Snapshots == {"s1", "s2"}
\* None
None == "None"

RECURSIVE BitLength(_)
\* int.bit_length()
BitLength(n) == IF n = 0 THEN 0 ELSE 1 + BitLength(n \div 2)

RECURSIVE ShiftLeft(_, _)
\* a << k
ShiftLeft(a, k) == IF k = 0 THEN a ELSE ShiftLeft(2 * a, k - 1)

RECURSIVE BitAnd(_, _)
\* a & b
BitAnd(a, b) ==
  IF a = 0 \/ b = 0 THEN 0
  ELSE (IF a % 2 = 1 /\ b % 2 = 1 THEN 1 ELSE 0) + 2 * BitAnd(a \div 2, b \div 2)

\* the capacity RingBuffer.__init__ settles on
RoundedCapacity(capacity) ==
  IF BitAnd(capacity, capacity - 1) # 0
    THEN ShiftLeft(1, BitLength(capacity - 1))
    ELSE capacity

\* RingBuffer._increment_index
_increment_index(index, mask) == BitAnd(index + 1, mask)

\* RingBuffer.is_full()
is_full(r) == _increment_index(r.write_index, r.mask) = r.read_index

\* RingBuffer.size()
RingSize(r) ==
  IF r.write_index >= r.read_index THEN r.write_index - r.read_index
  ELSE r.capacity - (r.read_index - r.write_index)

ring_frame == UNCHANGED <<fs, options, now, scanner_vars, run_vars, items, max_items,
                          inserted, cache_harness_vars, app_vars, saved, shown, stale>>

\* MetricsBuffer(capacity).  Beside the fields of the object the record keeps
\* what was accepted and not yet popped (held), the pushes rejected since the
\* last clear() (rejected) and the last call with what it returned.
MetricsBuffer(capacity) ==
  /\ ~ring.built
  /\ LET c == RoundedCapacity(capacity) IN
     ring' = [built |-> TRUE, capacity |-> c, mask |-> c - 1,
              buffer |-> [i \in 0..(c - 1) |-> None],
              read_index |-> 0, write_index |-> 0, dropped |-> 0,
              held |-> <<>>, rejected |-> 0,
              last |-> [op |-> "init", result |-> None, head |-> None]]
  /\ ring_frame

\* MetricsBuffer.push(metrics)
push(metrics) ==
  /\ ring.built
  /\ is_full(ring) => ring.rejected < MaxRejected
  /\ LET next_write == _increment_index(ring.write_index, ring.mask) IN
     IF next_write = ring.read_index
       THEN ring' = [ring EXCEPT !.dropped = @ + 1, !.rejected = @ + 1,
                                 !.last = [op |-> "push", result |-> "False", head |-> None]]
       ELSE ring' = [ring EXCEPT !.buffer[ring.write_index] = metrics,
                                 !.write_index = next_write,
                                 !.held = Append(@, metrics),
                                 !.last = [op |-> "push", result |-> "True", head |-> None]]
  /\ ring_frame

\* MetricsBuffer.pop()
pop ==
  /\ ring.built
  /\ LET head == IF ring.held = <<>> THEN None ELSE Head(ring.held) IN
     IF ring.read_index = ring.write_index
       THEN ring' = [ring EXCEPT !.last = [op |-> "pop", result |-> None, head |-> head]]
       ELSE ring' = [ring EXCEPT !.buffer[ring.read_index] = None,
                                 !.read_index = _increment_index(@, ring.mask),
                                 !.held = IF @ = <<>> THEN @ ELSE Tail(@),
                                 !.last = [op |-> "pop",
                                           result |-> ring.buffer[ring.read_index],
                                           head |-> head]]
  /\ ring_frame

\* MetricsBuffer.clear()
ring_clear ==
  /\ ring.built
  /\ ring' = [ring EXCEPT !.buffer = [i \in 0..(ring.capacity - 1) |-> None],
                          !.read_index = 0, !.write_index = 0, !.dropped = 0,
                          !.held = <<>>, !.rejected = 0,
                          !.last = [op |-> "clear", result |-> None, head |-> None]]
  /\ ring_frame

InitRing == InitCache

NextRing ==
  \/ \E capacity \in 1..MaxCapacity : MetricsBuffer(capacity)
  \/ \E metrics \in Snapshots : push(metrics)
  \/ pop
  \/ ring_clear

SpecRing == InitRing /\ [][NextRing]_vars

(***************************************************************************)
(* C39 - the ring buffer as a bounded FIFO.                                *)
(***************************************************************************)
\* C39: a buffer of capacity C hands its items back in the order they were
\* pushed; a push is rejected only when the buffer holds C items, a pop
\* returns None only when it holds none; size() is the number of accepted
\* pushes less the pops that returned an item since the last clear(), and
\* dropped_count the number of pushes rejected since the last clear().
C39_BoundedFifo ==
  ring.built =>
    /\ ring.last.op = "pop" => ring.last.result = ring.last.head
    /\ (ring.last.op = "push" /\ ring.last.result = "False") =>
         Len(ring.held) = ring.capacity
    /\ (ring.last.op = "pop" /\ ring.last.result = None) => ring.held = <<>>
    /\ RingSize(ring) = Len(ring.held)
    /\ ring.dropped = ring.rejected

====
